---- MODULE Spec2Model ----
(***************************************************************************)
(* A model of quart.app.Quart (src/quart/app.py): the registries filled    *)
(* during setup, the first-request gate, and the request and websocket     *)
(* pipelines run by handle_request / handle_websocket.                     *)
(*                                                                         *)
(* A unit of work (one handle_request or handle_websocket call) is an      *)
(* asyncio task: it runs without interruption from one await to the next.  *)
(* The pc of a unit names the await it is suspended in; every action       *)
(* resumes one unit with the outcome of that await and runs the code up    *)
(* to the next await.  An event is appended to the unit's trace when a     *)
(* callback is invoked.                                                    *)
(***************************************************************************)
EXTENDS Integers, Sequences, FiniteSets, TLC

\* ------------------------------------------------------------------ bounds
\* Units of work the transport may run at the same time (Concurrent).
NumUnits == 2
\* Callbacks a handler may add to its context's _after_request_functions.
MaxDynamic == 1

Units == 1 .. NumUnits

VARIABLES
    \* the application object
    url_value_preprocessors, before_request_funcs, after_request_funcs,
    teardown_request_funcs, teardown_appcontext_funcs,
    before_first_request_funcs, error_handler_spec,
    got_first_request, first_request_lock,
    view_functions, url_map, host_matching, server_name,
    template_context_processors, shell_context_processors,
    url_default_functions,
    \* the interpreter the application runs on
    cancelled_is_exception,
    \* the units of work in flight
    unit,
    \* what the transport and the callbacks may do
    workload,
    \* history: the first-request functions called, in order, while none of
    \* them has raised and run() has not ended (first_use_clean)
    first_use_log, first_use_clean,
    \* history: the last registration call and how it ended, and the last
    \* lookup of an error handler and what it gave
    last_call, found

hooks == <<url_value_preprocessors, before_request_funcs, after_request_funcs,
           before_first_request_funcs, error_handler_spec>>
teardowns == <<teardown_request_funcs, teardown_appcontext_funcs>>
gate == <<got_first_request, first_request_lock>>
routes == <<view_functions, url_map, host_matching, server_name>>
processor_lists == <<template_context_processors, shell_context_processors,
                     url_default_functions>>
config == <<cancelled_is_exception, workload, routes, last_call, found,
            processor_lists>>
history == <<first_use_log, first_use_clean>>
vars == <<hooks, teardowns, gate, config, unit, history>>

\* ------------------------------------------------------------ scope keys
\* AppOrBlueprintKey: the application's key is None, a blueprint's its name.
None == "None"
Blueprints == {"bp"}
ScopeKeys == {None} \cup Blueprints

Reverse(s) == [i \in 1 .. Len(s) |-> s[Len(s) + 1 - i]]

\* ------------------------------------------------------------ exceptions
\* The classes the model raises and registers handlers for, and each one's
\* base class.  asyncio.CancelledError derives from Exception on Python 3.6
\* and 3.7 and from BaseException on 3.8; the code runs on all three
\* (f-strings, "with await lock").
Base(class) ==
    CASE class = "KeyError" -> "LookupError"
      [] class = "LookupError" -> "Exception"
      [] class = "NotFound" -> "HTTPException"
      [] class = "InternalServerError" -> "HTTPException"
      [] class = "HTTPException" -> "Exception"
      [] class = "CancelledError" ->
            IF cancelled_is_exception THEN "Exception" ELSE "BaseException"
      [] class = "Exception" -> "BaseException"
      [] OTHER -> "object"

RECURSIVE Mro(_)
Mro(class) == IF class = "object" THEN <<>> ELSE <<class>> \o Mro(Base(class))

isinstance(error, class) == \E i \in 1 .. Len(Mro(error)) : Mro(error)[i] = class

\* The classes a callback run inside the try of full_dispatch_request may
\* raise, and those a callback run outside it may raise: there only whether
\* the class is a cancellation or an Exception is looked at.
Faults == {"KeyError", "NotFound", "CancelledError"}
OuterFaults == {"KeyError", "CancelledError"}
InnerPhases == {"url_value_preprocessor", "before_request", "handler"}

\* ------------------------------------------------------- error handlers
\* A Dict[Exception, Callable] is a sequence of <<class, handler>> pairs in
\* insertion order, with no class twice.

\* _find_exception_handler (module level): the first entry, in the dict's
\* order, whose class the error is an instance of.
find_exception_handler(error, exception_handlers) ==
    LET matches == {i \in 1 .. Len(exception_handlers) :
                        isinstance(error, exception_handlers[i][1])}
    IN  IF matches = {} THEN None
        ELSE exception_handlers[CHOOSE i \in matches :
                 \A j \in matches : i <= j][2]

\* wrong: the application's handlers are looked at first
Quart_find_exception_handler_app_first(error, blueprint) ==
    LET handler == find_exception_handler(error, error_handler_spec[None])
    IN  IF handler = None
        THEN find_exception_handler(error, error_handler_spec[blueprint])
        ELSE handler

\* Quart._find_exception_handler: the request's blueprint, then the app.
Quart_find_exception_handler(error, blueprint) ==
    LET handler == find_exception_handler(error, error_handler_spec[blueprint])
    IN  IF handler = None
        THEN find_exception_handler(error, error_handler_spec[None])
        ELSE handler

\* ---------------------------------------------------------- units of work
Ev(e, n, a) == [ev |-> e, name |-> n, arg |-> a]
Log(r, e) == [r EXCEPT !.trace = Append(@, e)]
Exc(e) == <<e>>
NoExc == <<>>
\* The callback awaited in phase ph raised e.
Raised(r, ph, e) == Log(r, Ev("raise", ph, Exc(e)))

\* A unit that is not running: no call of handle_request is in progress.
Idle == [pc |-> "idle", kind |-> "none", blueprint |-> None, route |-> "none",
         idx |-> 0, dynamic |-> 0, result |-> <<>>, error |-> "none",
         response |-> <<>>, outcome |-> "none", raised |-> "none",
         debug |-> FALSE, testing |-> FALSE, session |-> "none",
         undelivered |-> {}, trace |-> <<>>]

Active == {u \in Units : unit[u].pc # "idle"}

Set(u, r) == unit' = [unit EXCEPT ![u] = r]

\* The outcomes a callback awaited in phase ph may end with, besides
\* returning: the classes it may raise.
Raises(ph) ==
    IF ph \notin workload.raising THEN {}
    ELSE IF ph \in InnerPhases THEN Faults ELSE OuterFaults

\* ------------------------------------------------- the context's exit
\* do_teardown_request: the application's teardown functions, then the
\* blueprint's, as the registry holds them now.
teardown_functions(blueprint) ==
    teardown_request_funcs[None]
        \o (IF blueprint # None THEN teardown_request_funcs[blueprint] ELSE <<>>)

\* wrong: the teardown functions are not told what ended the request
do_teardown_request_no_exc(r, exc) ==
    LET functions == teardown_functions(r.blueprint)
        calls == [i \in 1 .. Len(functions) |->
                     Ev("teardown_request", functions[i], NoExc)]
    IN  [r EXCEPT !.trace = @ \o calls
                            \o <<Ev("signal", "request_tearing_down", NoExc)>>,
                  !.pc = "request_tearing_down"]

do_teardown_request(r, exc) ==
    LET functions == teardown_functions(r.blueprint)
        calls == [i \in 1 .. Len(functions) |->
                     Ev("teardown_request", functions[i], exc)]
    IN  [r EXCEPT !.trace = @ \o calls
                            \o <<Ev("signal", "request_tearing_down", exc)>>,
                  !.pc = "request_tearing_down"]

\* RequestContext.__aexit__ (quart/ctx.py): the frame is popped when the body
\* of "async with" ends, and teardown is given the exception that ended it.
request_context_exit(r, exc) == do_teardown_request(r, exc)

\* handle_request returns a response to its caller.
return_response(r, response) ==
    request_context_exit(
        [r EXCEPT !.response = response, !.outcome = "response"], NoExc)

\* An exception leaves handle_request.
propagate(r, e) ==
    request_context_exit(
        [r EXCEPT !.outcome = "raised", !.raised = e, !.response = <<>>], Exc(e))

\* ----------------------------------------------------- fault recovery
\* handle_exception, up to "await got_request_exception.send".
handle_exception(r, e) ==
    Log(Log([r EXCEPT !.error = e, !.pc = "got_request_exception"],
            Ev("handle_exception", "", Exc(e))),
        Ev("signal", "got_request_exception", Exc(e)))

\* The except clauses of handle_request.
handle_request_except(r, e) ==
    IF e = "CancelledError" THEN propagate(r, e)
    ELSE IF isinstance(e, "Exception") THEN handle_exception(r, e)
    ELSE propagate(r, e)

\* finalize_request, up to "await self.make_response(result)".
finalize_request(r, result) ==
    Log([r EXCEPT !.result = result, !.pc = "make_response"],
        Ev("make_response", "", result))

call_error_handler(r, handler, e) ==
    Log([r EXCEPT !.error = e, !.pc = "error_handler"],
        Ev("error_handler", handler, Exc(e)))

\* wrong: the response of the exception is used whatever is registered
handle_http_exception_default_only(r, e) ==
    finalize_request(r, <<e \o ".get_response">>)

handle_http_exception(r, e) ==
    LET handler == Quart_find_exception_handler(e, r.blueprint)
    IN  IF handler = None
        THEN finalize_request(r, <<e \o ".get_response">>)
        ELSE call_error_handler(r, handler, e)

\* wrong: an exception that is not an HTTP exception is always raised again
handle_user_exception_reraise(r, e) ==
    LET r1 == Log(r, Ev("handle_user_exception", "", Exc(e)))
    IN  IF isinstance(e, "HTTPException") THEN handle_http_exception(r1, e)
        ELSE handle_request_except(r1, e)

handle_user_exception(r, e) ==
    LET r1 == Log(r, Ev("handle_user_exception", "", Exc(e)))
        handler == Quart_find_exception_handler(e, r.blueprint)
    IN  IF isinstance(e, "HTTPException") THEN handle_http_exception(r1, e)
        ELSE IF handler = None THEN handle_request_except(r1, e)
        ELSE call_error_handler(r1, handler, e)

\* wrong: full_dispatch_request has no try around the dispatch
full_dispatch_except_reraise(r, e) == handle_request_except(r, e)

\* The except clause of full_dispatch_request: "except Exception as error".
full_dispatch_except(r, e) ==
    IF isinstance(e, "Exception") THEN handle_user_exception(r, e)
    ELSE handle_request_except(r, e)

\* ------------------------------------------------- preprocess, dispatch
\* wrong: the view function answers OPTIONS like any other method
dispatch_request_no_options(r) ==
    IF r.route = "routing_exception"
    THEN full_dispatch_except(Raised(r, "dispatch_request", "NotFound"), "NotFound")
    ELSE Log([r EXCEPT !.pc = "handler"],
             Ev("view_function", view_functions["view"], <<>>))

dispatch_request(r) ==
    IF r.route = "routing_exception"
    THEN full_dispatch_except(Raised(r, "dispatch_request", "NotFound"), "NotFound")
    ELSE IF r.route = "options"
    THEN Log([r EXCEPT !.pc = "options"],
             Ev("make_default_options_response", "", <<>>))
    ELSE Log([r EXCEPT !.pc = "handler"],
             Ev("view_function", view_functions["view"], <<>>))

\* wrong: the blueprint's functions come first
before_functions_blueprint_first(blueprint) ==
    (IF blueprint # None THEN before_request_funcs[blueprint] ELSE <<>>)
        \o before_request_funcs[None]

before_functions(blueprint) ==
    before_request_funcs[None]
        \o (IF blueprint # None THEN before_request_funcs[blueprint] ELSE <<>>)

\* wrong: a routing exception is raised before the functions are called
call_before_request_routing_first(r, i) ==
    LET functions == before_functions(r.blueprint)
    IN  IF i > Len(functions) \/ r.route = "routing_exception"
        THEN dispatch_request(r)
        ELSE Log([r EXCEPT !.pc = "before_request", !.idx = i],
                 Ev("before_request", functions[i], <<>>))

\* The loop over the before-request functions, from the i-th on: the call of
\* the i-th, or dispatch_request (full_dispatch_request) when none is left.
call_before_request(r, i) ==
    LET functions == before_functions(r.blueprint)
    IN  IF i > Len(functions) THEN dispatch_request(r)
        ELSE Log([r EXCEPT !.pc = "before_request", !.idx = i],
                 Ev("before_request", functions[i], <<>>))

url_value_processors(blueprint) ==
    url_value_preprocessors[None]
        \o (IF blueprint # None THEN url_value_preprocessors[blueprint] ELSE <<>>)

\* preprocess_request up to its first await.  The processors are plain
\* calls: the k-th raises e, or none does (k = Len + 1).
preprocess_request(r, k, e) ==
    LET processors == url_value_processors(r.blueprint)
        n == IF k > Len(processors) THEN Len(processors) ELSE k
        r1 == [r EXCEPT !.trace = @ \o [i \in 1 .. n |->
                            Ev("url_value_preprocessor", processors[i], <<>>)]]
    IN  IF k > Len(processors) THEN call_before_request(r1, 1)
        ELSE full_dispatch_except(Raised(r1, "url_value_preprocessor", e), e)

\* ------------------------------------------------------ process_response
\* wrong: the callbacks the frame collected are called last
after_functions_dynamic_last(dynamic, blueprint) ==
    after_request_funcs[None]
        \o (IF blueprint # None THEN after_request_funcs[blueprint] ELSE <<>>)
        \o [i \in 1 .. dynamic |-> "d" \o ToString(i)]

after_functions(dynamic, blueprint) ==
    [i \in 1 .. dynamic |-> "d" \o ToString(i)]
        \o after_request_funcs[None]
        \o (IF blueprint # None THEN after_request_funcs[blueprint] ELSE <<>>)

\* wrong: request_finished is sent before the session is saved
finish_process_response_save_last(r, session) ==
    LET r0 == Log([r EXCEPT !.session = session, !.pc = "request_finished"],
                  Ev("signal", "request_finished", r.response))
    IN  IF session # "null"
        THEN Log(r0, Ev("save_session", session, r.response)) ELSE r0

\* wrong: an empty session is not saved
finish_process_response_skip_empty(r, session) ==
    LET r0 == [r EXCEPT !.session = session]
        r1 == IF session \notin {"null", "empty"}
              THEN Log(r0, Ev("save_session", session, r.response)) ELSE r0
    IN  IF session = "unsaved"
        THEN handle_request_except(Raised(r1, "save_session", "KeyError"),
                                   "KeyError")
        ELSE Log([r1 EXCEPT !.pc = "request_finished"],
                 Ev("signal", "request_finished", r.response))

\* The end of process_response and of finalize_request, up to
\* "await request_finished.send"; session is what the frame's session is now:
\* the null session, an empty one, one with data, or one with data that the
\* session interface fails to save (save_session raises).
finish_process_response(r, session) ==
    LET r0 == [r EXCEPT !.session = session]
        r1 == IF session # "null"
              THEN Log(r0, Ev("save_session", session, r.response)) ELSE r0
    IN  IF session = "unsaved"
        THEN handle_request_except(Raised(r1, "save_session", "KeyError"),
                                   "KeyError")
        ELSE Log([r1 EXCEPT !.pc = "request_finished"],
                 Ev("signal", "request_finished", r.response))

call_after_request(r, i, session) ==
    LET functions == after_functions(r.dynamic, r.blueprint)
    IN  IF i > Len(functions) THEN finish_process_response(r, session)
        ELSE Log([r EXCEPT !.pc = "after_request", !.idx = i],
                 Ev("after_request", functions[i], r.response))

\* -------------------------------------------------------- the websocket
\* do_teardown_appcontext, up to "await appcontext_tearing_down.send".
do_teardown_appcontext(r, exc) ==
    LET calls == [i \in 1 .. Len(teardown_appcontext_funcs) |->
                     Ev("teardown_appcontext", teardown_appcontext_funcs[i], exc)]
    IN  [r EXCEPT !.trace = @ \o calls
                            \o <<Ev("signal", "appcontext_tearing_down", exc)>>,
                  !.pc = "appcontext_tearing_down"]

\* WebsocketContext.__aexit__ (quart/ctx.py): the frame is popped, and the
\* application context it pushed with it.
websocket_context_exit(r, exc) == do_teardown_appcontext(r, exc)

propagate_websocket(r, e) ==
    websocket_context_exit([r EXCEPT !.outcome = "raised", !.raised = e], Exc(e))

\* handle_websocket_exception, up to "await got_request_exception.send".
handle_websocket_exception(r, e) ==
    Log(Log([r EXCEPT !.error = e, !.pc = "websocket_exception"],
            Ev("handle_websocket_exception", "", Exc(e))),
        Ev("signal", "got_request_exception", Exc(e)))

\* wrong: a websocket's exception is answered like a request's
handle_websocket_except_as_request(r, e) == handle_request_except(r, e)

\* The except clauses of handle_websocket.
handle_websocket_except(r, e) ==
    IF e = "CancelledError" THEN propagate_websocket(r, e)
    ELSE IF isinstance(e, "Exception") THEN handle_websocket_exception(r, e)
    ELSE propagate_websocket(r, e)

dispatch_websocket(r) ==
    IF r.route = "routing_exception"
    THEN handle_websocket_except(Raised(r, "dispatch_websocket", "NotFound"),
                                 "NotFound")
    ELSE Log([r EXCEPT !.pc = "websocket_handler"],
             Ev("view_function", view_functions["ws_view"], <<>>))

\* ------------------------------------------------- the first-request gate
\* What follows try_trigger_before_first_request_functions in
\* full_dispatch_request ("await request_started.send") and in
\* full_dispatch_websocket (dispatch_websocket).
after_first_request(r) ==
    IF r.kind = "websocket" THEN dispatch_websocket(r)
    ELSE Log([r EXCEPT !.pc = "request_started"],
             Ev("signal", "request_started", <<>>))

\* An exception leaves try_trigger_before_first_request_functions: it is
\* outside the try of full_dispatch_request.
first_request_except(r, e) ==
    IF r.kind = "websocket" THEN handle_websocket_except(r, e)
    ELSE handle_request_except(r, e)

call_first_request_function(r, i) ==
    Log([r EXCEPT !.pc = "first_request", !.idx = i],
        Ev("before_first_request", before_first_request_funcs[i], <<>>))

\* wrong: the gate is not looked at again under the lock
with_first_request_lock_unchecked(u, r) ==
    /\ first_request_lock' = u
    /\ Set(u, call_first_request_function(r, 1))
    /\ first_use_log' = IF first_use_clean
                         THEN Append(first_use_log, before_first_request_funcs[1])
                         ELSE first_use_log
    /\ UNCHANGED got_first_request

\* wrong: a unit that finds the gate tripped under the lock untrips it and
\* runs the functions itself
with_first_request_lock_reset(u, r) ==
    /\ first_request_lock' = u
    /\ Set(u, call_first_request_function(r, 1))
    /\ first_use_log' = IF first_use_clean
                         THEN Append(first_use_log, before_first_request_funcs[1])
                         ELSE first_use_log
    /\ got_first_request' = FALSE

\* The body of "with await self._first_request_lock", entered by u.
with_first_request_lock(u, r) ==
    IF got_first_request
    THEN /\ first_request_lock' = 0
         /\ Set(u, after_first_request(r))
         /\ UNCHANGED <<got_first_request, first_use_log>>
    ELSE IF before_first_request_funcs = <<>>
    THEN /\ got_first_request' = TRUE
         /\ first_request_lock' = 0
         /\ Set(u, after_first_request(r))
         /\ UNCHANGED first_use_log
    ELSE /\ first_request_lock' = u
         /\ Set(u, call_first_request_function(r, 1))
         /\ first_use_log' = IF first_use_clean
                              THEN Append(first_use_log,
                                          before_first_request_funcs[1])
                              ELSE first_use_log
         /\ UNCHANGED got_first_request

\* wrong: a unit that finds the lock taken does not wait for it
try_trigger_before_first_request_functions_no_wait(u, r) ==
    IF got_first_request \/ first_request_lock # 0
    THEN Set(u, after_first_request(r))
         /\ UNCHANGED <<teardowns, gate, first_use_log>>
    ELSE /\ teardown_appcontext_funcs' = Reverse(teardown_appcontext_funcs)
         /\ teardown_request_funcs' =
                [key \in ScopeKeys |-> Reverse(teardown_request_funcs[key])]
         /\ with_first_request_lock(u, r)

\* wrong: the body of the with statement is entered without the lock
try_trigger_before_first_request_functions_no_lock(u, r) ==
    IF got_first_request
    THEN Set(u, after_first_request(r))
         /\ UNCHANGED <<teardowns, gate, first_use_log>>
    ELSE /\ teardown_appcontext_funcs' = Reverse(teardown_appcontext_funcs)
         /\ teardown_request_funcs' =
                [key \in ScopeKeys |-> Reverse(teardown_request_funcs[key])]
         /\ with_first_request_lock(u, r)

\* try_trigger_before_first_request_functions, up to its first await.
try_trigger_before_first_request_functions(u, r) ==
    IF got_first_request
    THEN Set(u, after_first_request(r))
         /\ UNCHANGED <<teardowns, gate, first_use_log>>
    ELSE /\ teardown_appcontext_funcs' = Reverse(teardown_appcontext_funcs)
         /\ teardown_request_funcs' =
                [key \in ScopeKeys |-> Reverse(teardown_request_funcs[key])]
         /\ IF first_request_lock = 0
            THEN with_first_request_lock(u, r)
            ELSE /\ Set(u, Log([r EXCEPT !.pc = "first_request_lock"],
                            Ev("await", "first_request_lock", <<>>)))
                 /\ UNCHANGED <<gate, first_use_log>>

\* ------------------------------------------------------------- actions
Routes == {"view", "options", "routing_exception"}
Sessions == {"null", "empty", "data", "unsaved"}

\* The event loop runs one task at a time, and a task keeps it until it
\* awaits something that does not complete at once.  Unit u goes on from the
\* await named pc when no other unit is in the middle of a run.
Yielding == {"idle", "first_request_lock"} \cup workload.suspending

Resumes(u, pc) ==
    /\ unit[u].pc = pc
    /\ \A v \in Units \ {u} : unit[v].pc \in Yielding

\* The transport starts a call on the first unit that runs none, while it
\* runs fewer than workload.concurrency.
FreeUnit(u) ==
    /\ Resumes(u, "idle")
    /\ \A v \in 1 .. u - 1 : unit[v].pc # "idle"
    /\ Cardinality(Active) < workload.concurrency

\* The transport calls handle_request with a request of blueprint bp whose
\* routing gave a rule with a view function, a rule answering OPTIONS by
\* itself, or a routing exception.
StartRequest(u) ==
    /\ FreeUnit(u)
    /\ \E bp \in ScopeKeys, route \in Routes :
           /\ <<bp, route>> \in workload.requests
           /\ Set(u, [Idle EXCEPT !.pc = "enter", !.kind = "request",
                                  !.blueprint = bp, !.route = route])
    /\ UNCHANGED <<hooks, teardowns, gate, config, history>>

\* The transport calls handle_websocket.
StartWebsocket(u) ==
    /\ FreeUnit(u)
    /\ \E route \in workload.websockets :
           Set(u, [Idle EXCEPT !.pc = "enter", !.kind = "websocket",
                               !.route = route])
    /\ UNCHANGED <<hooks, teardowns, gate, config, history>>

\* The context is entered: full_dispatch_request / full_dispatch_websocket
\* start with the first-request gate.
EnterContext(u) ==
    /\ Resumes(u, "enter")
    /\ try_trigger_before_first_request_functions(
           u, Log(unit[u], Ev("push", unit[u].kind, <<>>)))
    /\ UNCHANGED <<hooks, config, first_use_clean>>

\* The lock is free: a unit waiting for it gets it.  The waiting units get
\* it in any order, and a unit that comes to the free lock may get it before
\* them.
FirstRequestLockAcquired(u) ==
    /\ Resumes(u, "first_request_lock")
    /\ first_request_lock = 0
    /\ with_first_request_lock(u, unit[u])
    /\ UNCHANGED <<hooks, teardowns, config, first_use_clean>>

\* wrong: the gate is tripped whether or not the functions completed
first_request_function_raised_trips_gate(u, e) ==
    /\ Set(u, first_request_except(Raised(unit[u], "first_request", e), e))
    /\ first_request_lock' = 0
    /\ got_first_request' = TRUE

\* wrong: the lock is kept when a first-request function raises
first_request_function_raised_keeps_lock(u, e) ==
    /\ Set(u, first_request_except(Raised(unit[u], "first_request", e), e))
    /\ UNCHANGED gate

\* A first-request function raises e or is cancelled: the with statement
\* releases the lock, and _got_first_request is not set.
first_request_function_raised(u, e) ==
    /\ Set(u, first_request_except(Raised(unit[u], "first_request", e), e))
    /\ first_request_lock' = 0
    /\ UNCHANGED got_first_request

\* A first-request function returns, raises or is cancelled.
FirstRequestFunctionDone(u) ==
    /\ Resumes(u, "first_request")
    /\ \/ /\ unit[u].idx < Len(before_first_request_funcs)
          /\ Set(u, call_first_request_function(unit[u], unit[u].idx + 1))
          /\ first_use_log' =
                 IF first_use_clean
                 THEN Append(first_use_log,
                             before_first_request_funcs[unit[u].idx + 1])
                 ELSE first_use_log
          /\ UNCHANGED <<gate, first_use_clean>>
       \/ /\ unit[u].idx = Len(before_first_request_funcs)
          /\ got_first_request' = TRUE
          /\ first_request_lock' = 0
          /\ Set(u, after_first_request(unit[u]))
          /\ UNCHANGED <<first_use_log, first_use_clean>>
       \/ /\ \E e \in Raises("first_request") :
                 first_request_function_raised(u, e)
          /\ first_use_log' = <<>>
          /\ first_use_clean' = FALSE
    /\ UNCHANGED <<hooks, teardowns, config>>

\* send (quart/signals.py) returned; delivered says whether the
\* notification reached its subscribers.  A failure to deliver stays with
\* the signal: send returns all the same.
Deliveries == IF workload.undelivered THEN BOOLEAN ELSE {TRUE}
signal_sent(r, name, delivered) ==
    IF delivered THEN r ELSE [r EXCEPT !.undelivered = @ \cup {name}]

\* wrong: a notification that was not delivered ends the dispatch
request_started_sent_or_raise(r, delivered, k, e) ==
    IF delivered THEN preprocess_request(r, k, e)
    ELSE handle_request_except(
             Raised(signal_sent(r, "request_started", delivered),
                    "request_started", "KeyError"),
             "KeyError")

\* "await request_started.send(self)" returned: what it returned is
\* dropped, and preprocess_request is awaited.
request_started_sent(r, delivered, k, e) ==
    preprocess_request(signal_sent(r, "request_started", delivered), k, e)

\* request_started was sent: preprocess_request runs to its first await.
RequestStartedSent(u) ==
    /\ Resumes(u, "request_started")
    /\ \E k \in 1 .. Len(url_value_processors(unit[u].blueprint)) + 1,
          delivered \in Deliveries :
           \/ /\ k > Len(url_value_processors(unit[u].blueprint))
              /\ Set(u, request_started_sent(unit[u], delivered, k, "none"))
           \/ \E e \in Raises("url_value_preprocessor") :
                 /\ k <= Len(url_value_processors(unit[u].blueprint))
                 /\ Set(u, request_started_sent(unit[u], delivered, k, e))
    /\ UNCHANGED <<hooks, teardowns, gate, config, history>>

\* wrong: the result of a before-request function is dropped
before_request_returned_ignored(r, result) ==
    call_before_request(
        IF result = <<>> THEN r ELSE Log(r, Ev("return", "before_request", result)),
        r.idx + 1)

\* wrong: the routing exception is raised although a function answered
before_request_returned_routing_raised(r, result) ==
    IF result = <<>> THEN call_before_request(r, r.idx + 1)
    ELSE IF r.route = "routing_exception"
    THEN dispatch_request(Log(r, Ev("return", "before_request", result)))
    ELSE finalize_request(Log(r, Ev("return", "before_request", result)), result)

\* A before-request function returned result (None is <<>>): "if result is
\* not None: return result", and then in full_dispatch_request "if result is
\* None: dispatch_request" and finalize_request(result).
before_request_returned(r, result) ==
    IF result = <<>> THEN call_before_request(r, r.idx + 1)
    ELSE finalize_request(Log(r, Ev("return", "before_request", result)), result)

\* A before-request function returns None, returns a result, or raises.
BeforeRequestDone(u) ==
    /\ Resumes(u, "before_request")
    /\ LET r == unit[u]
           function == before_functions(r.blueprint)[r.idx]
       IN  \/ Set(u, before_request_returned(r, <<>>))
           \/ /\ workload.short_circuit
              /\ Set(u, before_request_returned(r, <<function>>))
           \/ \E e \in Raises("before_request") :
                  Set(u, full_dispatch_except(Raised(r, "before_request", e), e))
    /\ UNCHANGED <<hooks, teardowns, gate, config, history>>

\* The view function returns its result, or raises.
ViewFunctionDone(u) ==
    /\ Resumes(u, "handler")
    /\ \/ Set(u, finalize_request(unit[u], <<"view">>))
       \/ \E e \in Raises("handler") :
              Set(u, full_dispatch_except(Raised(unit[u], "handler", e), e))
    /\ UNCHANGED <<hooks, teardowns, gate, config, history>>

\* make_default_options_response returns.
OptionsResponseDone(u) ==
    /\ Resumes(u, "options")
    /\ Set(u, finalize_request(unit[u], <<"options">>))
    /\ UNCHANGED <<hooks, teardowns, gate, config, history>>

\* wrong: what the error handler returns is returned by handle_request
error_handler_returned_unfinalized(r, handler) ==
    return_response(r, <<handler>>)

\* The error handler returned: "result = await
\* self.handle_user_exception(error)" and then "return await
\* self.finalize_request(result, request_context)".
error_handler_returned(r, handler) == finalize_request(r, <<handler>>)

\* The error handler called by handle_user_exception / handle_http_exception
\* returns its result, or raises: that leaves full_dispatch_request.
ErrorHandlerDone(u) ==
    /\ Resumes(u, "error_handler")
    /\ LET r == unit[u]
           handler == r.trace[Len(r.trace)].name
       IN  \/ Set(u, error_handler_returned(r, handler))
           \/ \E e \in Raises("error_handler") :
                  Set(u, handle_request_except(Raised(r, "error_handler", e), e))
    /\ UNCHANGED <<hooks, teardowns, gate, config, history>>

\* make_response returns the response, or raises; process_response starts
\* with the callbacks the frame has collected.
MakeResponseDone(u) ==
    /\ Resumes(u, "make_response")
    /\ LET r == unit[u]
       IN  \/ \E d \in 0 .. workload.dynamic, session \in workload.sessions :
                  Set(u, call_after_request(
                             [r EXCEPT !.response = r.result, !.dynamic = d],
                             1, session))
           \/ \E e \in Raises("make_response") :
                  Set(u, handle_request_except(Raised(r, "make_response", e), e))
    /\ UNCHANGED <<hooks, teardowns, gate, config, history>>

\* An after-request function returns a response, or raises.
AfterRequestDone(u) ==
    /\ Resumes(u, "after_request")
    /\ LET r == unit[u]
           function == after_functions(r.dynamic, r.blueprint)[r.idx]
       IN  \/ \E session \in workload.sessions :
                  Set(u, call_after_request(
                             [r EXCEPT !.response = Append(@, function)],
                             r.idx + 1, session))
           \/ \E e \in Raises("after_request") :
                  Set(u, handle_request_except(Raised(r, "after_request", e), e))
    /\ UNCHANGED <<hooks, teardowns, gate, config, history>>

\* request_finished was sent: handle_request returns the response.
RequestFinishedSent(u) ==
    /\ Resumes(u, "request_finished")
    /\ \E delivered \in Deliveries :
           Set(u, return_response(
                      signal_sent(unit[u], "request_finished", delivered),
                      unit[u].response))
    /\ UNCHANGED <<hooks, teardowns, gate, config, history>>

\* wrong: the traceback is given whenever debug is on
unhandled_exception_response_debug_only(r, dbg, tst) ==
    LET r1 == [r EXCEPT !.debug = dbg, !.testing = tst]
    IN  IF dbg
        THEN Log([r1 EXCEPT !.pc = "exception_handler"],
                 Ev("traceback_response", "traceback_response", <<>>))
        ELSE return_response(r1, <<"InternalServerError.get_response">>)

\* handle_exception when no handler was found: "if self.debug and not
\* self.testing: return await traceback_response()", else the response of
\* the internal server error.
unhandled_exception_response(r, dbg, tst) ==
    LET r1 == [r EXCEPT !.debug = dbg, !.testing = tst]
    IN  IF dbg /\ ~tst
        THEN Log([r1 EXCEPT !.pc = "exception_handler"],
                 Ev("traceback_response", "traceback_response", <<>>))
        ELSE return_response(r1, <<"InternalServerError.get_response">>)

\* got_request_exception was sent: the rest of handle_exception.  debug and
\* testing are read from the configuration as it is now.
GotRequestExceptionSent(u) ==
    /\ Resumes(u, "got_request_exception")
    /\ LET r == Log(unit[u], Ev("log_exception", "", Exc(unit[u].error)))
           handler == Quart_find_exception_handler("InternalServerError",
                                                   r.blueprint)
       IN  IF handler = None
           THEN \E dbg \in BOOLEAN, tst \in BOOLEAN :
                    Set(u, unhandled_exception_response(r, dbg, tst))
           ELSE Set(u, Log([r EXCEPT !.pc = "exception_handler"],
                           Ev("exception_handler", handler, Exc(r.error))))
    /\ UNCHANGED <<hooks, teardowns, gate, config, history>>

\* The handler called by handle_exception (or traceback_response) returns
\* the response handle_request returns, or raises out of handle_request.
ExceptionHandlerDone(u) ==
    /\ Resumes(u, "exception_handler")
    /\ LET r == unit[u]
           handler == r.trace[Len(r.trace)].name
       IN  \/ Set(u, return_response(r, <<handler>>))
           \/ \E e \in Raises("exception_handler") :
                  Set(u, propagate(Raised(r, "exception_handler", e), e))
    /\ UNCHANGED <<hooks, teardowns, gate, config, history>>

\* request_tearing_down was sent: the request frame is popped, and the
\* application context with it.
RequestTearingDownSent(u) ==
    /\ Resumes(u, "request_tearing_down")
    /\ LET r == unit[u]
       IN  Set(u, do_teardown_appcontext(
                      Log(r, Ev("pop", r.kind, <<>>)),
                      IF r.outcome = "raised" THEN Exc(r.raised) ELSE NoExc))
    /\ UNCHANGED <<hooks, teardowns, gate, config, history>>

\* appcontext_tearing_down was sent: the call is over, and its caller has
\* the response or the exception.
AppcontextTearingDownSent(u) ==
    /\ Resumes(u, "appcontext_tearing_down")
    /\ Set(u, Idle)
    /\ UNCHANGED <<hooks, teardowns, gate, config, history>>

\* The websocket's view function returns, or raises.
WebsocketHandlerDone(u) ==
    /\ Resumes(u, "websocket_handler")
    /\ \/ Set(u, websocket_context_exit(
                     [unit[u] EXCEPT !.outcome = "returned"], NoExc))
       \/ \E e \in Raises("websocket_handler") :
              Set(u, handle_websocket_except(
                         Raised(unit[u], "websocket_handler", e), e))
    /\ UNCHANGED <<hooks, teardowns, gate, config, history>>

\* got_request_exception was sent: handle_websocket_exception logs and
\* raises the error again.
WebsocketExceptionSent(u) ==
    /\ Resumes(u, "websocket_exception")
    /\ Set(u, propagate_websocket(
                  Log(unit[u], Ev("log_exception", "", Exc(unit[u].error))),
                  unit[u].error))
    /\ UNCHANGED <<hooks, teardowns, gate, config, history>>

\* run() ends: "finally: self._got_first_request = False".
RunEnded ==
    /\ workload.restarts
    /\ \A u \in Units : unit[u].pc = "idle"
    /\ got_first_request' = FALSE
    /\ first_use_log' = <<>>
    /\ first_use_clean' = FALSE
    /\ UNCHANGED <<hooks, teardowns, first_request_lock, config, unit>>

Next ==
    \/ \E u \in Units : StartRequest(u)
    \/ \E u \in Units : StartWebsocket(u)
    \/ \E u \in Units : EnterContext(u)
    \/ \E u \in Units : FirstRequestLockAcquired(u)
    \/ \E u \in Units : FirstRequestFunctionDone(u)
    \/ \E u \in Units : RequestStartedSent(u)
    \/ \E u \in Units : BeforeRequestDone(u)
    \/ \E u \in Units : ViewFunctionDone(u)
    \/ \E u \in Units : OptionsResponseDone(u)
    \/ \E u \in Units : ErrorHandlerDone(u)
    \/ \E u \in Units : MakeResponseDone(u)
    \/ \E u \in Units : AfterRequestDone(u)
    \/ \E u \in Units : RequestFinishedSent(u)
    \/ \E u \in Units : GotRequestExceptionSent(u)
    \/ \E u \in Units : ExceptionHandlerDone(u)
    \/ \E u \in Units : RequestTearingDownSent(u)
    \/ \E u \in Units : AppcontextTearingDownSent(u)
    \/ \E u \in Units : WebsocketHandlerDone(u)
    \/ \E u \in Units : WebsocketExceptionSent(u)
    \/ RunEnded

\* ---------------------------------------------------------------- setup
\* The registries as setup left them: every list in registration order.
Registered(prefix) ==
    [key \in ScopeKeys |->
        IF key = None THEN <<prefix \o "1", prefix \o "2">>
        ELSE <<key \o "_" \o prefix \o "1", key \o "_" \o prefix \o "2">>]

\* The error handlers an application may have registered: for classes of
\* their own, or for the base classes.
SpecificHandlers ==
    [key \in ScopeKeys |->
        IF key = None
        THEN << <<"LookupError", "on_lookup_error">>,
                <<"KeyError", "on_key_error">> >>
        ELSE << <<"NotFound", "bp_on_404">>,
                <<"InternalServerError", "bp_on_500">> >>]
CatchAllHandlers ==
    [key \in ScopeKeys |->
        IF key = None THEN << <<"HTTPException", "on_http_exception">> >>
        ELSE << <<"Exception", "bp_on_exception">> >>]
ErrorHandlerSpecs == {SpecificHandlers, CatchAllHandlers}

\* The awaits of a callback: it may raise, and it may suspend the unit.
Phases == {"first_request", "url_value_preprocessor", "before_request",
           "handler", "error_handler", "make_response", "after_request",
           "exception_handler", "websocket_handler"}
\* The other awaits: entering the context, the options response, the signals.
OtherAwaits == {"enter", "options", "request_started", "request_finished",
                "got_request_exception", "websocket_exception",
                "request_tearing_down", "appcontext_tearing_down"}

\* ------------------------------------------------------------- routes
Endpoints == {"static", "view", "plain_view", "ws_view"}
\* The functions registered as views, and those of them defined with
\* "async def".
ViewFuncs == {"view", "plain_view"}
CoroutineFunctions == {"view", "ws_view", "send_static_file"}

\* ensure_coroutine (quart/utils.py): a coroutine function is returned as it
\* is, and a plain function as its coroutine function.
ensure_coroutine(func) ==
    IF func \in CoroutineFunctions THEN func ELSE "async_" \o func

\* _endpoint_from_view_func: the name of the function.
endpoint_from_view_func(view_func) == view_func

Rule(endpoint, host, is_websocket) ==
    [endpoint |-> endpoint, host |-> host, is_websocket |-> is_websocket]

\* The table and the map after __init__, for an application with a static
\* folder (static_host is set exactly when host_matching is).
InitRoutes ==
    /\ host_matching \in BOOLEAN
    /\ server_name \in {None, "example.com"}
    /\ url_map = <<Rule("static",
                        IF host_matching THEN "static.example.com" ELSE None,
                        FALSE)>>
    /\ view_functions = [e \in Endpoints |->
                             IF e = "static" THEN "send_static_file" ELSE None]
    /\ last_call = [op |-> "__init__", endpoint |-> "static",
                    handler |-> "send_static_file", old_handler |-> None,
                    raised |-> None]

\* The application the units of work are served by: host matching is off,
\* and "view" and "ws_view" were added.
ServedRoutes ==
    /\ host_matching = FALSE
    /\ server_name = None
    /\ url_map = <<Rule("static", None, FALSE), Rule("view", None, FALSE),
                   Rule("ws_view", None, TRUE)>>
    /\ view_functions = [e \in Endpoints |->
                             CASE e = "static" -> "send_static_file"
                               [] e = "view" -> "view"
                               [] e = "ws_view" -> "ws_view"
                               [] OTHER -> None]
    /\ last_call = [op |-> "add_websocket", endpoint |-> "ws_view",
                    handler |-> "ws_view", old_handler |-> None,
                    raised |-> None]

NothingFound == [error |-> None, blueprint |-> None, handler |-> None]

InitApp ==
    /\ found = NothingFound
    /\ url_value_preprocessors = Registered("p")
    /\ before_request_funcs = Registered("b")
    /\ after_request_funcs = Registered("a")
    /\ teardown_request_funcs = Registered("t")
    /\ teardown_appcontext_funcs = <<"ta1", "ta2">>
    /\ before_first_request_funcs = <<"f1", "f2">>
    /\ template_context_processors =
           [key \in ScopeKeys |->
               IF key = None THEN <<"_default_template_context_processor">>
               ELSE <<>>]
    /\ shell_context_processors = <<>>
    /\ url_default_functions = [key \in ScopeKeys |-> <<>>]
    /\ got_first_request = FALSE
    /\ first_request_lock = 0
    /\ cancelled_is_exception \in BOOLEAN
    /\ unit = [u \in Units |-> Idle]
    /\ first_use_log = <<>>
    /\ first_use_clean = TRUE

\* One unit of work at a time, in one run of the server; any request, and
\* every callback of a request or websocket may raise.  The first-request
\* functions raise in the other workload.
Sequential ==
    [concurrency |-> 1, restarts |-> FALSE,
     raising |-> Phases \ {"first_request"},
     suspending |-> Phases \cup OtherAwaits,
     requests |-> ScopeKeys \X Routes,
     websockets |-> {"view", "routing_exception"}, short_circuit |-> TRUE,
     dynamic |-> MaxDynamic, sessions |-> Sessions, undelivered |-> FALSE]

\* NumUnits units of work at a time, in run after run of the server:
\* requests of the blueprint and websockets.  Only the first-request
\* functions, the view functions and the subscribers of
\* got_request_exception wait for something (the other callbacks complete at
\* once), and only the first-request functions raise or are cancelled.
Concurrent ==
    [concurrency |-> NumUnits, restarts |-> TRUE,
     raising |-> {"first_request"},
     suspending |-> {"first_request", "handler", "websocket_handler",
                     "got_request_exception"},
     requests |-> {<<"bp", "view">>}, websockets |-> {"view"},
     short_circuit |-> FALSE, dynamic |-> 0, sessions |-> {"null"},
     undelivered |-> FALSE]

\* One request at a time, in one run of the server, with subscribers of
\* request_started and request_finished that the notification may fail to
\* reach; no callback raises.
Undelivered ==
    [concurrency |-> 1, restarts |-> FALSE, raising |-> {},
     suspending |-> {"request_started", "handler", "after_request",
                     "request_finished"},
     requests |-> ScopeKeys \X {"view", "options"}, websockets |-> {},
     short_circuit |-> FALSE, dynamic |-> 0, sessions |-> {"null", "data"},
     undelivered |-> TRUE]

\* The concurrent workload, in which only the first-request functions
\* raise, is run on one application and one build: there nothing is looked
\* up but the handler of handle_exception, and a CancelledError is caught
\* by name before "except Exception" is reached.  So is the workload of
\* the undelivered notifications, in which nothing raises.
Init ==
    /\ InitApp
    /\ ServedRoutes
    /\ error_handler_spec \in ErrorHandlerSpecs
    /\ workload \in {Sequential, Concurrent, Undelivered}
    /\ workload \in {Concurrent, Undelivered} =>
           error_handler_spec = SpecificHandlers /\ ~cancelled_is_exception

Spec == Init /\ [][Next]_vars

\* Unit u goes on from the await it is suspended in.
Step(u) ==
    \/ EnterContext(u)
    \/ FirstRequestLockAcquired(u)
    \/ FirstRequestFunctionDone(u)
    \/ RequestStartedSent(u)
    \/ BeforeRequestDone(u)
    \/ ViewFunctionDone(u)
    \/ OptionsResponseDone(u)
    \/ ErrorHandlerDone(u)
    \/ MakeResponseDone(u)
    \/ AfterRequestDone(u)
    \/ RequestFinishedSent(u)
    \/ GotRequestExceptionSent(u)
    \/ ExceptionHandlerDone(u)
    \/ RequestTearingDownSent(u)
    \/ AppcontextTearingDownSent(u)
    \/ WebsocketHandlerDone(u)
    \/ WebsocketExceptionSent(u)

\* Every callback returns or raises in the end, the event loop runs the
\* tasks that are ready in turn, and the lock wakes those that wait for it
\* in turn: a unit that can go on again and again does go on.
Fairness == \A u \in Units : SF_vars(Step(u))

\* NumUnits units of work at a time, in run after run of the server, that
\* wait for nothing but the first-request functions and the lock: requests
\* and websockets whose first-request functions and view functions may
\* raise or be cancelled.
Waiting ==
    [concurrency |-> NumUnits, restarts |-> TRUE,
     raising |-> {"first_request", "handler", "websocket_handler"},
     suspending |-> {"first_request"},
     requests |-> {<<"bp", "view">>, <<"bp", "options">>},
     websockets |-> {"view"}, short_circuit |-> FALSE, dynamic |-> 0,
     sessions |-> {"null"}, undelivered |-> FALSE]

InitWaiting ==
    /\ InitApp
    /\ ServedRoutes
    /\ error_handler_spec = SpecificHandlers
    /\ ~cancelled_is_exception
    /\ workload = Waiting

SpecFair == InitWaiting /\ [][Next]_vars /\ Fairness

\* ------------------------------------------------- registering routes
MaxRules == 4

Called(op, endpoint, handler, raised) ==
    [op |-> op, endpoint |-> endpoint, handler |-> handler,
     old_handler |-> view_functions[endpoint], raised |-> raised]

\* wrong: the table is written without looking at what it holds
set_view_function_unchecked(op, endpoint, handler) ==
    /\ view_functions' = [view_functions EXCEPT ![endpoint] = handler]
    /\ last_call' = Called(op, endpoint, handler, None)

\* The end of add_url_rule and of add_websocket, after url_map.add: the
\* endpoint is given the handler unless it has another one.
set_view_function(op, endpoint, handler) ==
    LET old_handler == view_functions[endpoint]
    IN  IF old_handler # None /\ old_handler # handler
        THEN /\ last_call' = Called(op, endpoint, handler, "AssertionError")
             /\ UNCHANGED view_functions
        ELSE /\ view_functions' = [view_functions EXCEPT ![endpoint] = handler]
             /\ last_call' = Called(op, endpoint, handler, None)

\* add_url_rule(path, view_func, endpoint=endpoint, host=host,
\* subdomain=subdomain).  The path, the methods and the automatic options of
\* the rule are not looked at by anything modelled here.
add_url_rule(view_func, endpoint_arg, host_arg, subdomain) ==
    LET endpoint == IF endpoint_arg = None
                    THEN endpoint_from_view_func(view_func) ELSE endpoint_arg
        handler == ensure_coroutine(view_func)
        raises(error) ==
            /\ last_call' = Called("add_url_rule", endpoint, handler, error)
            /\ UNCHANGED <<view_functions, url_map>>
        host == IF subdomain # None THEN subdomain \o "." \o server_name
                ELSE IF host_arg = None /\ host_matching THEN server_name
                ELSE host_arg
    IN  IF ~host_matching /\ (host_arg # None \/ subdomain # None)
        THEN raises("RuntimeError")
        ELSE IF host_arg # None /\ subdomain # None THEN raises("ValueError")
        ELSE IF subdomain # None /\ server_name = None
        THEN raises("RuntimeError")
        ELSE IF subdomain = None /\ host_arg = None /\ host_matching
                /\ server_name = None
        THEN raises("RuntimeError")
        ELSE /\ url_map' = Append(url_map, Rule(endpoint, host, FALSE))
             /\ set_view_function("add_url_rule", endpoint, handler)

\* add_websocket(path, view_func, endpoint=endpoint).
add_websocket(view_func, endpoint_arg) ==
    LET endpoint == IF endpoint_arg = None
                    THEN endpoint_from_view_func(view_func) ELSE endpoint_arg
        handler == ensure_coroutine(view_func)
    IN  /\ url_map' = Append(url_map, Rule(endpoint, None, TRUE))
        /\ set_view_function("add_websocket", endpoint, handler)

EndpointArgs == {None, "view", "static"}
Unserved ==
    <<url_value_preprocessors, before_request_funcs, after_request_funcs,
      before_first_request_funcs, teardowns, gate, cancelled_is_exception,
      workload, unit, history, processor_lists>>

AddUrlRule ==
    /\ Len(url_map) < MaxRules
    /\ \E view_func \in ViewFuncs, endpoint \in EndpointArgs,
          host \in {None, "host.example.com"}, subdomain \in {None, "sub"} :
           add_url_rule(view_func, endpoint, host, subdomain)
    /\ UNCHANGED <<Unserved, error_handler_spec, found, host_matching, server_name>>

AddWebsocket ==
    /\ Len(url_map) < MaxRules
    /\ \E view_func \in ViewFuncs, endpoint \in EndpointArgs :
           add_websocket(view_func, endpoint)
    /\ UNCHANGED <<Unserved, error_handler_spec, found, host_matching, server_name>>

NextRoutes == AddUrlRule \/ AddWebsocket

\* An application under construction: routes are added to it.
InitSetupRoutes ==
    /\ InitApp
    /\ InitRoutes
    /\ error_handler_spec = [key \in ScopeKeys |-> <<>>]
    /\ workload = Sequential

SpecRoutes == InitSetupRoutes /\ [][NextRoutes]_vars

\* endpoint(endpoint)(func): "self.view_functions[endpoint] = handler".
endpoint(endpoint_arg, func) ==
    LET handler == ensure_coroutine(func)
    IN  /\ view_functions' = [view_functions EXCEPT ![endpoint_arg] = handler]
        /\ last_call' = Called("endpoint", endpoint_arg, handler, None)

RegisterEndpoint ==
    /\ \E func \in ViewFuncs, endpoint_arg \in EndpointArgs \ {None} :
           endpoint(endpoint_arg, func)
    /\ UNCHANGED <<Unserved, error_handler_spec, found, url_map, host_matching,
                   server_name>>

\* An application under construction: routes are added to it and functions
\* are registered as endpoints.
NextEndpoints == AddUrlRule \/ AddWebsocket \/ RegisterEndpoint
SpecEndpoints == InitSetupRoutes /\ [][NextEndpoints]_vars

\* ----------------------------------------- registering error handlers
\* all_http_exceptions (quart/exceptions.py): the class of a status code.
\* A status code is written as its numeral.
StatusCodes == {"404", "500"}
all_http_exceptions(status) ==
    IF status = "404" THEN "NotFound" ELSE "InternalServerError"

\* "self.error_handler_spec[name][error] = handler": a key the dict has
\* keeps its place, a new key goes to the end.
dict_set(dict, key, value) ==
    IF \E i \in 1 .. Len(dict) : dict[i][1] = key
    THEN [i \in 1 .. Len(dict) |->
             IF dict[i][1] = key THEN <<key, value>> ELSE dict[i]]
    ELSE Append(dict, <<key, value>>)

\* The ints all_http_exceptions has no class for: "all_http_exceptions[error]"
\* raises KeyError.
UnrecognizedCodes == {"999"}
isinstance_int(error) == error \in StatusCodes \cup UnrecognizedCodes

\* What register_error_handler raises, None when it returns.
register_error_handler_raises(error) ==
    IF isinstance_int(error) /\ error \notin StatusCodes THEN "KeyError"
    ELSE None

\* wrong: the handler is stored under the error as it was given
register_error_handler_as_given(error, func, name) ==
    error_handler_spec' =
        [error_handler_spec EXCEPT
            ![name] = dict_set(@, error, ensure_coroutine(func))]

register_error_handler(error, func, name) ==
    LET handler == ensure_coroutine(func)
    IN  IF register_error_handler_raises(error) # None
        THEN UNCHANGED error_handler_spec
        ELSE LET class == IF isinstance_int(error)
                          THEN all_http_exceptions(error) ELSE error
             IN  error_handler_spec' =
                     [error_handler_spec EXCEPT
                         ![name] = dict_set(@, class, handler)]

\* The function registered for an error in a scope is named after both.
HandlerFor(error, name) ==
    (IF name = None THEN "on_" ELSE name \o "_on_") \o error

ErrorArgs == {"Exception", "LookupError", "KeyError", "404"}
                 \cup UnrecognizedCodes

RegisterErrorHandler ==
    /\ \E error \in ErrorArgs, name \in ScopeKeys :
           register_error_handler(error, HandlerFor(error, name), name)
    /\ UNCHANGED <<Unserved, routes, last_call, found>>

\* register_error_handler is called, and the call is written down.
RegisterErrorHandlerCalled ==
    /\ \E error \in ErrorArgs, name \in ScopeKeys :
           /\ register_error_handler(error, HandlerFor(error, name), name)
           /\ last_call' = [op |-> "register_error_handler", error |-> error,
                             name |-> name,
                             handler |-> ensure_coroutine(HandlerFor(error, name)),
                             raised |-> register_error_handler_raises(error)]
    /\ UNCHANGED <<Unserved, routes, found>>

\* Quart._find_exception_handler for an error raised while a request of
\* the blueprint is served.
FindExceptionHandler ==
    /\ \E error \in Faults, blueprint \in ScopeKeys :
           found' = [error |-> error, blueprint |-> blueprint,
                     handler |-> Quart_find_exception_handler(error, blueprint)]
    /\ UNCHANGED <<Unserved, routes, last_call, error_handler_spec>>

NextErrors == RegisterErrorHandler \/ FindExceptionHandler

\* An application under construction: error handlers are registered with
\* it, and looked up.
InitSetupErrors ==
    /\ InitApp
    /\ ServedRoutes
    /\ error_handler_spec = [key \in ScopeKeys |-> <<>>]
    /\ workload = Sequential

SpecErrors == InitSetupErrors /\ [][NextErrors]_vars

\* The same application, with each registration written down.
NextRegistration == RegisterErrorHandlerCalled
SpecRegistration == InitSetupErrors /\ [][NextRegistration]_vars

\* ------------------------------------------------- registering hooks
\* The methods that register a function for a phase: each appends it to a
\* list of the application.  before_first_request takes a name and does not
\* use it; teardown_appcontext takes none.
context_processor(func, name) ==
    /\ template_context_processors' =
           [template_context_processors EXCEPT ![name] = Append(@, func)]
    /\ UNCHANGED <<url_value_preprocessors, before_request_funcs,
                   after_request_funcs, before_first_request_funcs,
                   teardown_request_funcs, teardown_appcontext_funcs,
                   shell_context_processors, url_default_functions>>

\* "self.template_context_processors[name].append(func)"
shell_context_processor(func, name) ==
    /\ template_context_processors' =
           [template_context_processors EXCEPT ![name] = Append(@, func)]
    /\ UNCHANGED <<url_value_preprocessors, before_request_funcs,
                   after_request_funcs, before_first_request_funcs,
                   teardown_request_funcs, teardown_appcontext_funcs,
                   shell_context_processors, url_default_functions>>

url_defaults(func, name) ==
    /\ url_default_functions' =
           [url_default_functions EXCEPT ![name] = Append(@, func)]
    /\ UNCHANGED <<url_value_preprocessors, before_request_funcs,
                   after_request_funcs, before_first_request_funcs,
                   teardown_request_funcs, teardown_appcontext_funcs,
                   template_context_processors, shell_context_processors>>

url_value_preprocessor(func, name) ==
    /\ url_value_preprocessors' =
           [url_value_preprocessors EXCEPT ![name] = Append(@, func)]
    /\ UNCHANGED <<before_request_funcs, after_request_funcs,
                   before_first_request_funcs, teardown_request_funcs,
                   teardown_appcontext_funcs, template_context_processors,
                   shell_context_processors, url_default_functions>>

before_request(func, name) ==
    /\ before_request_funcs' =
           [before_request_funcs EXCEPT ![name] = Append(@, ensure_coroutine(func))]
    /\ UNCHANGED <<url_value_preprocessors, after_request_funcs,
                   before_first_request_funcs, teardown_request_funcs,
                   teardown_appcontext_funcs, template_context_processors,
                   shell_context_processors, url_default_functions>>

before_first_request(func, name) ==
    /\ before_first_request_funcs' = Append(before_first_request_funcs, ensure_coroutine(func))
    /\ UNCHANGED <<url_value_preprocessors, before_request_funcs,
                   after_request_funcs, teardown_request_funcs,
                   teardown_appcontext_funcs, template_context_processors,
                   shell_context_processors, url_default_functions>>

after_request(func, name) ==
    /\ after_request_funcs' =
           [after_request_funcs EXCEPT ![name] = Append(@, ensure_coroutine(func))]
    /\ UNCHANGED <<url_value_preprocessors, before_request_funcs,
                   before_first_request_funcs, teardown_request_funcs,
                   teardown_appcontext_funcs, template_context_processors,
                   shell_context_processors, url_default_functions>>

teardown_request(func, name) ==
    /\ teardown_request_funcs' =
           [teardown_request_funcs EXCEPT ![name] = Append(@, func)]
    /\ UNCHANGED <<url_value_preprocessors, before_request_funcs,
                   after_request_funcs, before_first_request_funcs,
                   teardown_appcontext_funcs, template_context_processors,
                   shell_context_processors, url_default_functions>>

teardown_appcontext(func) ==
    /\ teardown_appcontext_funcs' = Append(teardown_appcontext_funcs, func)
    /\ UNCHANGED <<url_value_preprocessors, before_request_funcs,
                   after_request_funcs, before_first_request_funcs,
                   teardown_request_funcs, template_context_processors,
                   shell_context_processors, url_default_functions>>

MaxHooks == 2
HookOps == {"context_processor", "shell_context_processor", "url_defaults",
            "url_value_preprocessor", "before_request", "before_first_request",
            "after_request", "teardown_request", "teardown_appcontext"}

HookCalled(op, func, name) ==
    [op |-> op, func |-> func, name |-> name, calls |-> last_call.calls + 1]

\* One of the methods is called with a plain function, for the application
\* or for the blueprint.
RegisterHook ==
    /\ last_call.calls < MaxHooks
    /\ \E op \in HookOps, name \in ScopeKeys :
           /\ op = "teardown_appcontext" => name = None
           /\ last_call' = HookCalled(op, "hook", name)
           /\ CASE op = "context_processor" -> context_processor("hook", name)
                [] op = "shell_context_processor" ->
                       shell_context_processor("hook", name)
                [] op = "url_defaults" -> url_defaults("hook", name)
                [] op = "url_value_preprocessor" ->
                       url_value_preprocessor("hook", name)
                [] op = "before_request" -> before_request("hook", name)
                [] op = "before_first_request" ->
                       before_first_request("hook", name)
                [] op = "after_request" -> after_request("hook", name)
                [] op = "teardown_request" -> teardown_request("hook", name)
                [] op = "teardown_appcontext" -> teardown_appcontext("hook")
    /\ UNCHANGED <<error_handler_spec, gate, routes, cancelled_is_exception,
                   workload, found, unit, history>>

NextHooks == RegisterHook

\* An application under construction: functions are registered for its
\* phases.
InitSetupHooks ==
    /\ InitApp
    /\ host_matching = FALSE
    /\ server_name = None
    /\ url_map = <<Rule("static", None, FALSE)>>
    /\ view_functions = [e \in Endpoints |->
                             IF e = "static" THEN "send_static_file" ELSE None]
    /\ last_call = [op |-> "__init__", func |-> None, name |-> None,
                    calls |-> 0]
    /\ error_handler_spec = [key \in ScopeKeys |-> <<>>]
    /\ workload = Sequential

SpecHooks == InitSetupHooks /\ [][NextHooks]_vars

\* ---------------------------------------------------------- make_response
\* Python values, each with its type: None, a str, an int (written as its
\* numeral), a dict, a list of pairs, a tuple, a Response.
NoneValue == [type |-> "NoneType"]
Str(value) == [type |-> "str", value |-> value]
Integer(value) == [type |-> "int", value |-> value]
Dict(items) == [type |-> "dict", items |-> items]
List(items) == [type |-> "list", items |-> items]
Tuple(items) == [type |-> "tuple", items |-> items]
IsNone(value) == value.type = "NoneType"

\* A response object: id tells the objects apart, headers maps the names it
\* has to their values.
Response(id, body, status_code, headers) ==
    [type |-> "Response", id |-> id, body |-> body,
     status_code |-> status_code, headers |-> headers]

\* self.response_class(value) (quart/wrappers): a new response with the
\* status 200 and the content type of the class.
response_class(value) ==
    Response("new", value, Integer("200"), "Content-Type" :> "text/html")

\* The mapping a dict or a list of pairs gives: of two pairs with one name,
\* the later counts.
AsMapping(headers) ==
    IF headers.type = "dict" THEN headers.items
    ELSE [name \in {headers.items[i][1] : i \in DOMAIN headers.items} |->
             LET at == {i \in DOMAIN headers.items : headers.items[i][1] = name}
             IN  headers.items[CHOOSE i \in at : \A j \in at : j <= i][2]]

\* response.headers.update(headers) (quart/datastructures): the names given
\* get the values given, the other names keep theirs.
headers_update(old, headers) ==
    LET given == AsMapping(headers)
    IN  [name \in DOMAIN old \cup DOMAIN given |->
             IF name \in DOMAIN given THEN given[name] ELSE old[name]]

\* "result + (None,) * (3 - len(result))"
pad(items) == items \o [i \in 1 .. 3 - Len(items) |-> NoneValue]

\* wrong: the second element of a tuple is always the status
make_response_second_is_status(result) ==
    LET isTuple == result.type = "tuple"
        value == IF isTuple THEN pad(result.items)[1] ELSE result
        status == IF isTuple THEN pad(result.items)[2] ELSE NoneValue
        headers == IF isTuple THEN pad(result.items)[3] ELSE NoneValue
        response == IF value.type # "Response" THEN response_class(value)
                    ELSE value
        with_status == IF ~IsNone(status)
                       THEN [response EXCEPT !.status_code = status]
                       ELSE response
    IN  IF ~IsNone(headers)
        THEN [with_status EXCEPT !.headers = headers_update(@, headers)]
        ELSE with_status

\* wrong: a response object given as the value keeps its status
make_response_status_kept(result) ==
    LET isTuple == result.type = "tuple"
        value == IF isTuple THEN pad(result.items)[1] ELSE result
        status_or_headers == IF isTuple THEN pad(result.items)[2] ELSE NoneValue
        isHeaders == status_or_headers.type \in {"dict", "list"}
        headers == IF isHeaders THEN status_or_headers
                   ELSE IF isTuple THEN pad(result.items)[3] ELSE NoneValue
        status == IF isHeaders THEN NoneValue ELSE status_or_headers
        response == IF value.type # "Response" THEN response_class(value)
                    ELSE value
        with_status == IF ~IsNone(status) /\ value.type # "Response"
                       THEN [response EXCEPT !.status_code = status]
                       ELSE response
    IN  IF ~IsNone(headers)
        THEN [with_status EXCEPT !.headers = headers_update(@, headers)]
        ELSE with_status

\* Quart.make_response.  A response object given as the value is changed in
\* place and returned: the response returned has its id.
make_response(result) ==
    LET isTuple == result.type = "tuple"
        value == IF isTuple THEN pad(result.items)[1] ELSE result
        status_or_headers == IF isTuple THEN pad(result.items)[2] ELSE NoneValue
        isHeaders == status_or_headers.type \in {"dict", "list"}
        headers == IF isHeaders THEN status_or_headers
                   ELSE IF isTuple THEN pad(result.items)[3] ELSE NoneValue
        status == IF isHeaders THEN NoneValue ELSE status_or_headers
        response == IF value.type # "Response" THEN response_class(value)
                    ELSE value
        with_status == IF ~IsNone(status)
                       THEN [response EXCEPT !.status_code = status]
                       ELSE response
    IN  IF ~IsNone(headers)
        THEN [with_status EXCEPT !.headers = headers_update(@, headers)]
        ELSE with_status

\* What a view function may return: a str or a response object, alone or
\* in a tuple of one to three elements with a status and headers.
ResponseValues ==
    {Str("body")}
        \cup {Response("given", Str("made"), status_code, headers) :
                 status_code \in {Integer("200"), Integer("404")},
                 headers \in {"Content-Type" :> "text/html",
                              ("Content-Type" :> "text/html") @@ ("Allow" :> "HEAD")}}
HeaderValues ==
    {Dict("Allow" :> "GET"),
     Dict(("Content-Type" :> "text/plain") @@ ("X-Test" :> "1")),
     List(<< <<"X-Test", "1">>, <<"X-Test", "2">> >>)}
StatusValues == {Integer("201"), Str("404 NOT FOUND")}
SecondValues == {NoneValue} \cup StatusValues \cup HeaderValues
ThirdValues == {NoneValue} \cup HeaderValues
Results ==
    ResponseValues
        \cup {Tuple(<<value>>) : value \in ResponseValues}
        \cup {Tuple(<<value, second>>) :
                 value \in ResponseValues, second \in SecondValues}
        \cup {Tuple(<<value, second, third>>) :
                 value \in ResponseValues, second \in SecondValues,
                 third \in ThirdValues}

\* make_response is called with a result.
MakeResponse ==
    /\ \E result \in Results :
           last_call' = [op |-> "make_response", result |-> result,
                         response |-> make_response(result)]
    /\ UNCHANGED <<Unserved, error_handler_spec, found, view_functions, url_map,
                   host_matching, server_name>>

NextResponse == MakeResponse

\* An application whose view functions' results are made into responses.
InitSetupResponse ==
    /\ InitApp
    /\ ServedRoutes
    /\ error_handler_spec = [key \in ScopeKeys |-> <<>>]
    /\ workload = Sequential

SpecResponse == InitSetupResponse /\ [][NextResponse]_vars

\* ------------------------------------------------------------ properties
IsPrefix(s, t) == Len(s) <= Len(t) /\ \A i \in 1 .. Len(s) : s[i] = t[i]

\* The events of a kind in the trace of unit u, and their names.
Events(u, kind) == SelectSeq(unit[u].trace, LAMBDA e : e.ev = kind)
Names(events) == [i \in 1 .. Len(events) |-> events[i].name]
Has(u, kind, name) ==
    \E i \in 1 .. Len(unit[u].trace) :
        unit[u].trace[i].ev = kind /\ unit[u].trace[i].name = name

\* The functions of a phase in registration order: the application's, then
\* those of the request's blueprint.
InOrder(prefix, blueprint) ==
    Registered(prefix)[None]
        \o (IF blueprint # None THEN Registered(prefix)[blueprint] ELSE <<>>)

DynamicNames == {"d" \o ToString(i) : i \in 1 .. MaxDynamic}
RegisteredAfter(u) ==
    SelectSeq(Names(Events(u, "after_request")), LAMBDA n : n \notin DynamicNames)

\* C1: in the url-value-preprocessing, before-request and after-request
\* phases of a request, the functions called so far are the application's in
\* registration order followed by the blueprint's in registration order, and
\* a phase that was completed (the view function was reached, request_finished
\* was sent) has called all of them.
C1_GlobalBeforeBlueprint ==
    \A u \in Units :
        LET bp == unit[u].blueprint
            pre == Names(Events(u, "url_value_preprocessor"))
            before == Names(Events(u, "before_request"))
        IN  /\ IsPrefix(pre, InOrder("p", bp))
            /\ IsPrefix(before, InOrder("b", bp))
            /\ IsPrefix(RegisteredAfter(u), InOrder("a", bp))
            /\ before # <<>> => pre = InOrder("p", bp)
            /\ Has(u, "view_function", "view") =>
                   pre = InOrder("p", bp) /\ before = InOrder("b", bp)
            /\ Has(u, "signal", "request_finished") =>
                   RegisteredAfter(u) = InOrder("a", bp)

C1_Witness ==
    \E u \in Units :
        /\ unit[u].blueprint = "bp"
        /\ Has(u, "view_function", "view")
        /\ Has(u, "signal", "request_finished")
        /\ Len(Events(u, "before_request")) = 4
        /\ Len(RegisteredAfter(u)) = 4
        /\ Len(Events(u, "url_value_preprocessor")) = 4

\* C2: as long as no first-request function has raised or been cancelled
\* and run() has not reset the gate, the first-request functions called so
\* far, by all units together, are the registered ones in registration order
\* without repetition, and all of them once the gate is tripped or a unit is
\* past the gate.
C2_FirstUseOnce ==
    first_use_clean =>
        /\ IsPrefix(first_use_log, before_first_request_funcs)
        /\ got_first_request => first_use_log = before_first_request_funcs
        /\ \A u \in Units :
               (Has(u, "signal", "request_started")
                    \/ Has(u, "view_function", "ws_view"))
                   => first_use_log = before_first_request_funcs

\* Two units were started before the gate was tripped; one ran the
\* first-request functions while the other waited for the lock, and both
\* are past the gate.
C2_Witness ==
    \E u, v \in Units :
        /\ u # v
        /\ first_use_clean /\ got_first_request
        /\ Len(Events(u, "before_first_request")) = Len(before_first_request_funcs)
        /\ Has(v, "await", "first_request_lock")
        /\ Events(v, "before_first_request") = <<>>
        /\ Has(v, "view_function", "view") \/ Has(v, "view_function", "ws_view")
        /\ unit[u].pc \in {"handler", "websocket_handler"}

\* handle_request is over for the unit: the context is being left.
ExitPcs == {"request_tearing_down", "appcontext_tearing_down"}
Range(f) == {f[i] : i \in DOMAIN f}
Trace(u) == unit[u].trace

\* C3: when a before-request function returns a result that is not None,
\* that result is passed to finalize_request at once, no before-request
\* function, view function or default options response comes after it, and
\* the response handed to the after-request functions starts from it.
C3_ShortCircuit ==
    \A u \in Units : \A i \in 1 .. Len(Trace(u)) :
        (Trace(u)[i].ev = "return" /\ Trace(u)[i].name = "before_request") =>
            /\ i < Len(Trace(u))
            /\ Trace(u)[i + 1] = Ev("make_response", "", Trace(u)[i].arg)
            /\ \A j \in i + 1 .. Len(Trace(u)) :
                   Trace(u)[j].ev \notin {"before_request", "view_function",
                                          "make_default_options_response"}
            /\ unit[u].pc \in {"after_request", "request_finished"} =>
                   IsPrefix(Trace(u)[i].arg, unit[u].response)

\* The application's first before-request function answered a request of
\* the blueprint, and the response was returned.
C3_Witness ==
    \E u \in Units :
        /\ unit[u].blueprint = "bp"
        /\ \E i \in 1 .. Len(Trace(u)) :
               Trace(u)[i] = Ev("return", "before_request", <<"b1">>)
        /\ unit[u].pc = "request_tearing_down"
        /\ unit[u].outcome = "response"
        /\ unit[u].response[1] = "b1"

\* The teardown functions of the request's scope were each called once.
TornDownOnce(u) ==
    LET names == Names(Events(u, "teardown_request"))
    IN  /\ Len(names) = Len(InOrder("t", unit[u].blueprint))
        /\ Range(names) = Range(InOrder("t", unit[u].blueprint))

\* C4: when the view function raises an exception e (not a cancellation),
\* handle_user_exception is called with e, and handle_exception with e when
\* e is not an HTTP exception and no registered handler matches it; no
\* teardown function is called before handle_request is over, and then each
\* teardown function of the request's scope was called exactly once.
C4_FaultTornDownAndRecovered ==
    \A u \in Units : \A i \in 1 .. Len(Trace(u)) :
        (/\ Trace(u)[i].ev = "raise" /\ Trace(u)[i].name = "handler"
         /\ Trace(u)[i].arg # Exc("CancelledError")) =>
            LET e == Trace(u)[i].arg[1]
            IN  /\ i < Len(Trace(u))
                /\ Trace(u)[i + 1] = Ev("handle_user_exception", "", Exc(e))
                /\ (/\ ~isinstance(e, "HTTPException")
                    /\ Quart_find_exception_handler(e, unit[u].blueprint) = None)
                       => /\ i + 1 < Len(Trace(u))
                          /\ Trace(u)[i + 2] = Ev("handle_exception", "", Exc(e))
                /\ IF unit[u].pc \in ExitPcs THEN TornDownOnce(u)
                   ELSE Events(u, "teardown_request") = <<>>

\* A view function raised KeyError, no handler matched it, handle_exception
\* made the response, and the context is being left.
C4_Witness ==
    \E u \in Units :
        /\ \E i \in 1 .. Len(Trace(u)) :
               Trace(u)[i] = Ev("raise", "handler", Exc("KeyError"))
        /\ Has(u, "handle_exception", "")
        /\ unit[u].pc \in ExitPcs
        /\ unit[u].outcome = "response"
        /\ TornDownOnce(u)

\* C7: when the view function is cancelled, handle_request raises the
\* cancellation to its caller, returns no response, and each teardown
\* function of the request's scope is called exactly once.
C7_CancellationPropagates ==
    \A u \in Units :
        (/\ \E i \in 1 .. Len(Trace(u)) :
                Trace(u)[i] = Ev("raise", "handler", Exc("CancelledError"))
         /\ unit[u].pc \in ExitPcs) =>
            /\ unit[u].outcome = "raised"
            /\ unit[u].raised = "CancelledError"
            /\ unit[u].response = <<>>
            /\ TornDownOnce(u)

\* C8: a cancellation raised by a url value preprocessor, a before-request
\* function or the view function is not passed to handle_user_exception or
\* handle_exception, no error handler is called with it, and
\* request_finished is not sent afterwards.
C8_CancellationBypassesRecovery ==
    \A u \in Units : \A i \in 1 .. Len(Trace(u)) :
        (/\ Trace(u)[i].ev = "raise" /\ Trace(u)[i].name \in InnerPhases
         /\ Trace(u)[i].arg = Exc("CancelledError")) =>
            \A j \in i + 1 .. Len(Trace(u)) :
                /\ Trace(u)[j].ev \in {"handle_user_exception", "handle_exception",
                                       "error_handler", "exception_handler"}
                       => Trace(u)[j].arg # Exc("CancelledError")
                /\ Trace(u)[j] # Ev("signal", "request_finished", Trace(u)[j].arg)

\* C9: the teardown functions called for a request are, within the
\* application's group and within the blueprint's group, the registered ones
\* from the last registered to the first.
C9_TeardownLIFO ==
    \A u \in Units :
        (unit[u].kind = "request" /\ unit[u].pc \in ExitPcs) =>
            \A key \in {None, unit[u].blueprint} :
                SelectSeq(Names(Events(u, "teardown_request")),
                          LAMBDA n : n \in Range(Registered("t")[key]))
                    = Reverse(Registered("t")[key])

\* What holds of a unit one of whose first-request functions raised.
C10_Unresolved ==
    \A u \in Units : \A i \in 1 .. Len(Trace(u)) :
        (Trace(u)[i].ev = "raise" /\ Trace(u)[i].name = "first_request") =>
            /\ \A j \in 1 .. Len(Trace(u)) :
                   /\ Trace(u)[j].ev \notin
                          {"url_value_preprocessor", "before_request",
                           "view_function", "make_default_options_response",
                           "handle_user_exception", "error_handler"}
                   /\ Trace(u)[j] # Ev("signal", "request_started", <<>>)
            /\ Trace(u)[i].arg # Exc("CancelledError") =>
                   /\ i < Len(Trace(u))
                   /\ Trace(u)[i + 1] =
                          Ev(IF unit[u].kind = "websocket"
                             THEN "handle_websocket_exception"
                             ELSE "handle_exception", "", Trace(u)[i].arg)

\* The step in which a first-request function raises, and the step in which
\* a unit comes to the gate while it is untripped and the lock is free.
C10_Step ==
    \A u \in Units :
        /\ (~Has(u, "raise", "first_request") /\ Has(u, "raise", "first_request")')
               => ~got_first_request' /\ first_request_lock' = 0
        /\ (/\ unit[u].pc \in {"enter", "first_request_lock"}
            /\ unit'[u].pc # unit[u].pc
            /\ ~got_first_request /\ first_request_lock = 0)
               => /\ unit'[u].pc = "first_request"
                  /\ first_request_lock' = u
                  /\ unit'[u].trace[Len(unit'[u].trace)] =
                         Ev("before_first_request",
                            before_first_request_funcs[1], <<>>)

\* C10: when a first-request function raises, the gate stays untripped and
\* the lock is released; the unit calls no url value preprocessor,
\* before-request function or view function and its exception goes to
\* handle_exception (handle_websocket_exception for a websocket); and a unit
\* that comes to the untripped gate with the lock free calls the first of the
\* first-request functions again.
C10_FirstUseFaultRetried == [] C10_Unresolved /\ [][C10_Step]_vars

\* A first-request function of one unit raised, and another unit, which had
\* waited for the lock, is running the first-request functions again.
C10_Witness ==
    \E u, v \in Units :
        /\ u # v
        /\ Has(u, "raise", "first_request")
        /\ Has(u, "handle_exception", "") \/ Has(u, "handle_websocket_exception", "")
        /\ ~got_first_request
        /\ unit[v].pc = "first_request"
        /\ first_request_lock = v

\* The entry of a class in a dict of handlers, None when it has none.
Registration(exception_handlers, class) ==
    IF \E i \in 1 .. Len(exception_handlers) : exception_handlers[i][1] = class
    THEN (CHOOSE entry \in Range(exception_handlers) : entry[1] = class)[2]
    ELSE None

\* C5: when the dict of the scope looked at first holds a handler for the
\* class of the error itself and one for a base class of it, the handler
\* found is the one registered for the class itself.
C5_SpecificBeatsBase ==
    LET handlers == error_handler_spec[found.blueprint]
    IN  (/\ found.error # None
         /\ Registration(handlers, found.error) # None
         /\ \E i \in 2 .. Len(Mro(found.error)) :
                Registration(handlers, Mro(found.error)[i]) # None)
            => found.handler = Registration(handlers, found.error)

\* C6: add_url_rule and add_websocket raise when the endpoint has another
\* handler than the one given, and leave the table as it was; given the
\* handler the endpoint already has (and a host and subdomain that can be
\* used), they do not raise and the endpoint keeps that handler.
C6_DuplicateEndpoint ==
    last_call.op \in {"add_url_rule", "add_websocket"} =>
        /\ (last_call.old_handler # None
                /\ last_call.old_handler # last_call.handler)
               => /\ last_call.raised # None
                  /\ view_functions[last_call.endpoint] = last_call.old_handler
        /\ (last_call.old_handler = last_call.handler
                /\ last_call.raised \notin {"RuntimeError", "ValueError"})
               => /\ last_call.raised = None
                  /\ view_functions[last_call.endpoint] = last_call.handler

\* An endpoint was registered a second time with the handler it has, and
\* after that a third time with another one, which raised.
C6_Witness ==
    /\ last_call.op = "add_websocket"
    /\ last_call.endpoint = "view"
    /\ last_call.old_handler = "view"
    /\ last_call.handler = "async_plain_view"
    /\ last_call.raised = "AssertionError"
    /\ Len(SelectSeq(url_map, LAMBDA rule : rule.endpoint = "view")) = 3

\* The phase an event belongs to, "" for an event of no phase.
PhaseOf(e) ==
    CASE e.ev = "push" -> "push"
      [] e.ev \in {"await", "before_first_request"} -> "first_request"
      [] e.ev = "signal" /\ e.name \in {"request_started", "request_finished",
                                        "request_tearing_down"} -> e.name
      [] e.ev \in {"url_value_preprocessor", "before_request", "make_response",
                   "after_request", "save_session", "teardown_request"} -> e.ev
      [] e.ev \in {"view_function", "make_default_options_response"} -> "dispatch"
      [] OTHER -> ""

\* The phases that are one event.
SinglePhases == {"push", "request_started", "dispatch", "make_response",
                 "save_session", "request_finished", "request_tearing_down"}

IndexIn(order, phase) == CHOOSE k \in 1 .. Len(order) : order[k] = phase

\* The phases of the events of unit u, one after the other, are in the order
\* given, and no phase of one event is there twice.
PhasesFollow(u, order) ==
    LET phases == SelectSeq([i \in 1 .. Len(Trace(u)) |-> PhaseOf(Trace(u)[i])],
                            LAMBDA ph : ph # "")
    IN  \A i \in 1 .. Len(phases) - 1 :
            /\ IndexIn(order, phases[i]) <= IndexIn(order, phases[i + 1])
            /\ phases[i] \in SinglePhases => phases[i] # phases[i + 1]

\* C11 as stated: the context is pushed, request_started is sent, the
\* first-request gate is passed, then the url value preprocessors, the
\* before-request functions, the dispatch, make_response, the after-request
\* functions, the saving of the session, request_finished, the teardown
\* functions and request_tearing_down, in this order.
C11_PhasesAsStated ==
    \A u \in Units :
        unit[u].kind = "request" =>
            PhasesFollow(u, <<"push", "request_started", "first_request",
                              "url_value_preprocessor", "before_request",
                              "dispatch", "make_response", "after_request",
                              "save_session", "request_finished",
                              "teardown_request", "request_tearing_down">>)

\* C11 amended: the same order with the first-request gate before
\* request_started.
C11_PhaseOrder ==
    \A u \in Units :
        unit[u].kind = "request" =>
            PhasesFollow(u, <<"push", "first_request", "request_started",
                              "url_value_preprocessor", "before_request",
                              "dispatch", "make_response", "after_request",
                              "save_session", "request_finished",
                              "teardown_request", "request_tearing_down">>)

\* A first request went through every phase.
C11_Witness ==
    \E u \in Units :
        /\ unit[u].pc = "request_tearing_down"
        /\ {PhaseOf(Trace(u)[i]) : i \in 1 .. Len(Trace(u))} \ {""} =
               {"push", "first_request", "request_started",
                "url_value_preprocessor", "before_request", "dispatch",
                "make_response", "after_request", "save_session",
                "request_finished", "teardown_request", "request_tearing_down"}

\* C12: when the routing exception of a request is raised, every url value
\* preprocessor and every before-request function of the request's scope has
\* been called, and the exception is passed to handle_user_exception.
C12_RoutingFaultDeferred ==
    \A u \in Units : \A i \in 1 .. Len(Trace(u)) :
        (Trace(u)[i].ev = "raise" /\ Trace(u)[i].name = "dispatch_request") =>
            LET earlier == SubSeq(Trace(u), 1, i - 1)
                called(kind) ==
                    Names(SelectSeq(earlier, LAMBDA e : e.ev = kind))
            IN  /\ called("url_value_preprocessor") = InOrder("p", unit[u].blueprint)
                /\ called("before_request") = InOrder("b", unit[u].blueprint)
                /\ i < Len(Trace(u))
                /\ Trace(u)[i + 1] =
                       Ev("handle_user_exception", "", Trace(u)[i].arg)

\* A request of the blueprint with a routing exception was answered.
C12_Witness ==
    \E u \in Units :
        /\ unit[u].blueprint = "bp"
        /\ Has(u, "raise", "dispatch_request")
        /\ Len(Events(u, "before_request")) = 4
        /\ unit[u].pc \in ExitPcs
        /\ unit[u].outcome = "response"

\* The event e is in the trace of unit u.
Occurs(u, e) == \E i \in 1 .. Len(Trace(u)) : Trace(u)[i] = e

\* The events of unit u before its first teardown function is called.
Dispatched(u) ==
    LET first == CHOOSE k \in 1 .. Len(Trace(u)) + 1 :
                     /\ k <= Len(Trace(u)) => Trace(u)[k].ev = "teardown_request"
                     /\ \A j \in 1 .. k - 1 : Trace(u)[j].ev # "teardown_request"
    IN  SubSeq(Trace(u), 1, first - 1)

\* handle_request returned the response after it was finalized:
\* request_finished was sent with it as the last thing before teardown.
ReturnedFinalized(u) ==
    /\ Dispatched(u) # <<>>
    /\ Dispatched(u)[Len(Dispatched(u))] =
           Ev("signal", "request_finished", unit[u].response)

\* C13 as stated: a response that handle_request returns after a fault went
\* to handle_user_exception or to handle_exception was finalized.
C13_RecoveryResultFinalized ==
    \A u \in Units :
        (/\ unit[u].pc \in ExitPcs /\ unit[u].outcome = "response"
         /\ Has(u, "handle_user_exception", "") \/ Has(u, "handle_exception", ""))
            => ReturnedFinalized(u)

\* C13 amended: the result of an error handler called by
\* handle_user_exception or handle_http_exception, and the response of an
\* HTTP exception without handler, is passed to make_response, and the
\* response handle_request then returns was finalized unless the fault went
\* to handle_exception; the response handle_exception makes is returned as
\* it is: no make_response, after-request function or request_finished
\* follows it.
C13_UserResultFinalized ==
    \A u \in Units :
        /\ \A i \in 1 .. Len(Trace(u)) - 1 :
               /\ Trace(u)[i].ev = "error_handler" =>
                      \/ Trace(u)[i + 1] =
                             Ev("make_response", "", <<Trace(u)[i].name>>)
                      \/ Trace(u)[i + 1].ev = "raise"
               /\ (/\ Trace(u)[i].ev = "handle_user_exception"
                   /\ isinstance(Trace(u)[i].arg[1], "HTTPException")
                   /\ Trace(u)[i + 1].ev # "error_handler") =>
                      Trace(u)[i + 1] =
                          Ev("make_response", "",
                             <<Trace(u)[i].arg[1] \o ".get_response">>)
               /\ Trace(u)[i].ev = "handle_exception" =>
                      \A j \in i + 1 .. Len(Trace(u)) :
                          /\ Trace(u)[j].ev \notin {"make_response", "after_request",
                                                    "save_session"}
                          /\ Trace(u)[j].name # "request_finished"
        /\ (/\ unit[u].pc \in ExitPcs /\ unit[u].outcome = "response"
            /\ ~Has(u, "handle_exception", "")) => ReturnedFinalized(u)

\* The result of an error handler went through the after-request functions
\* and was returned.
C13_Witness ==
    \E u \in Units :
        /\ unit[u].pc \in ExitPcs /\ unit[u].outcome = "response"
        /\ Has(u, "error_handler", "on_lookup_error")
        /\ unit[u].response = <<"on_lookup_error", "a1", "a2">>
        /\ ReturnedFinalized(u)

\* What ended the dispatch of unit u: the exception handle_request raises,
\* or nothing when it returns a response.
Ended(u) == IF unit[u].outcome = "raised" THEN Exc(unit[u].raised) ELSE NoExc

\* C14: however the dispatch of a request ends (also when make_response, an
\* after-request function, save_session or the handler called by
\* handle_exception raised), no teardown function is called before it has
\* ended, and then each teardown function of the request's scope is called
\* exactly once, and they and request_tearing_down are given the exception
\* handle_request raises, or None when it returns a response.
C14_TeardownUnconditional ==
    \A u \in Units :
        unit[u].kind = "request" =>
            IF unit[u].pc \in ExitPcs
            THEN /\ TornDownOnce(u)
                 /\ Occurs(u, Ev("signal", "request_tearing_down", Ended(u)))
                 /\ \A i \in 1 .. Len(Trace(u)) :
                        (\/ Trace(u)[i].ev = "teardown_request"
                         \/ Trace(u)[i].name = "request_tearing_down")
                            => Trace(u)[i].arg = Ended(u)
            ELSE /\ Events(u, "teardown_request") = <<>>
                 /\ ~Has(u, "signal", "request_tearing_down")

\* An after-request function raised KeyError, the handler called by
\* handle_exception raised KeyError in turn, and the teardown functions of
\* the blueprint's request were called with it.
C14_Witness ==
    \E u \in Units :
        /\ unit[u].kind = "request" /\ unit[u].blueprint = "bp"
        /\ unit[u].pc \in ExitPcs
        /\ Occurs(u, Ev("raise", "after_request", Exc("KeyError")))
        /\ Occurs(u, Ev("raise", "exception_handler", Exc("KeyError")))
        /\ Ended(u) = Exc("KeyError")
        /\ TornDownOnce(u)
        /\ Occurs(u, Ev("teardown_request", "t1", Exc("KeyError")))

\* The handlers registered under key for a class that error is an instance of.
MatchingHandlers(error, key) ==
    {error_handler_spec[key][i][2] : i \in
        {j \in 1 .. Len(error_handler_spec[key]) :
            isinstance(error, error_handler_spec[key][j][1])}}

\* The events of unit u after the i-th, up to the next exception raised.
UntilNextRaise(u, i) ==
    LET later == {j \in i + 1 .. Len(Trace(u)) : Trace(u)[j].ev = "raise"}
        last == IF later = {} THEN Len(Trace(u))
                ELSE CHOOSE j \in later : \A k \in later : j <= k
    IN  SubSeq(Trace(u), i + 1, last)

UncaughtEvents == {"handle_exception", "log_exception", "exception_handler",
                   "traceback_response"}
ReachesUncaught(events) ==
    \E k \in 1 .. Len(events) :
        \/ events[k].ev \in UncaughtEvents
        \/ events[k].name = "got_request_exception"

\* C15: when a url value preprocessor, a before-request function, the view
\* function or the routing raises an HTTP exception e, the handler that
\* matches e in the request's blueprint or in the application is called
\* with e and what it returns is passed to finalize_request; when none
\* matches, e.get_response() is passed to finalize_request; and e is not
\* given to handle_exception: got_request_exception is not sent and
\* nothing is logged for it.
C15_HttpFaultResolved ==
    \A u \in Units : \A i \in 1 .. Len(Trace(u)) :
        (/\ unit[u].kind = "request" /\ Trace(u)[i].ev = "raise"
         /\ Trace(u)[i].name \in InnerPhases \cup {"dispatch_request"}
         /\ isinstance(Trace(u)[i].arg[1], "HTTPException")) =>
            LET e == Trace(u)[i].arg[1]
                handlers == MatchingHandlers(e, unit[u].blueprint)
                                \cup MatchingHandlers(e, None)
                next == UntilNextRaise(u, i)
            IN  /\ Len(next) >= 2
                /\ next[1] = Ev("handle_user_exception", "", Exc(e))
                /\ IF handlers = {}
                   THEN next[2] = Ev("make_response", "", <<e \o ".get_response">>)
                   ELSE /\ next[2].ev = "error_handler"
                        /\ next[2].name \in handlers
                        /\ next[2].arg = Exc(e)
                        /\ Len(next) >= 3 =>
                               \/ next[3] = Ev("make_response", "", <<next[2].name>>)
                               \/ next[3].ev = "raise"
                /\ ~ReachesUncaught(next)

\* The routing of a request of the application raised NotFound, the
\* application's handler for HTTP exceptions was called, and its result was
\* returned.
C15_Witness ==
    \E u \in Units :
        /\ unit[u].blueprint = None
        /\ unit[u].pc \in ExitPcs /\ unit[u].outcome = "response"
        /\ Occurs(u, Ev("raise", "dispatch_request", Exc("NotFound")))
        /\ Occurs(u, Ev("error_handler", "on_http_exception", Exc("NotFound")))
        /\ unit[u].response[1] = "on_http_exception"
        /\ ReturnedFinalized(u)

\* C16: when a url value preprocessor, a before-request function or the view
\* function raises an exception e that is neither an HTTP exception nor a
\* cancellation: if a handler matches e in the request's blueprint or in the
\* application, it is called with e, what it returns is passed to
\* finalize_request, and handle_exception is not entered for e; if none
\* matches, handle_exception is called with e right after
\* handle_user_exception; and in the whole request handle_user_exception
\* and handle_exception are each entered at most once.
C16_UserFaultResolved ==
    \A u \in Units : \A i \in 1 .. Len(Trace(u)) :
        (/\ unit[u].kind = "request" /\ Trace(u)[i].ev = "raise"
         /\ Trace(u)[i].name \in InnerPhases
         /\ ~isinstance(Trace(u)[i].arg[1], "HTTPException")
         /\ Trace(u)[i].arg[1] # "CancelledError") =>
            LET e == Trace(u)[i].arg[1]
                handlers == MatchingHandlers(e, unit[u].blueprint)
                                \cup MatchingHandlers(e, None)
                next == UntilNextRaise(u, i)
            IN  /\ Len(next) >= 2
                /\ next[1] = Ev("handle_user_exception", "", Exc(e))
                /\ IF handlers = {}
                   THEN /\ next[2] = Ev("handle_exception", "", Exc(e))
                        /\ \A k \in 3 .. Len(next) :
                               next[k].ev \notin {"error_handler", "make_response"}
                   ELSE /\ next[2].ev = "error_handler"
                        /\ next[2].name \in handlers
                        /\ next[2].arg = Exc(e)
                        /\ Len(next) >= 3 =>
                               \/ next[3] = Ev("make_response", "", <<next[2].name>>)
                               \/ next[3].ev = "raise"
                        /\ ~ReachesUncaught(next)
                /\ Len(Events(u, "handle_user_exception")) = 1
                /\ Len(Events(u, "handle_exception")) <= 1

\* A before-request function of a request of the application raised
\* KeyError, no handler matches it, and handle_exception answered it.
C16_Witness ==
    \E u \in Units :
        /\ unit[u].blueprint = None
        /\ MatchingHandlers("KeyError", None) = {}
        /\ Occurs(u, Ev("raise", "before_request", Exc("KeyError")))
        /\ Events(u, "handle_exception") = <<Ev("handle_exception", "", Exc("KeyError"))>>
        /\ Len(Events(u, "handle_user_exception")) = 1
        /\ unit[u].pc \in ExitPcs /\ unit[u].outcome = "response"

\* C17: when handle_exception is called with e, got_request_exception is
\* sent with e and e is logged; then the handler that matches an
\* InternalServerError in the request's blueprint or in the application is
\* called with e and its result is the response; without such a handler the
\* response is the traceback response exactly when debug is on and testing
\* is off, and the response of InternalServerError otherwise.
C17_UncaughtLayer ==
    \A u \in Units : \A i \in 1 .. Len(Trace(u)) :
        (unit[u].kind = "request" /\ Trace(u)[i].ev = "handle_exception") =>
            LET e == Trace(u)[i].arg
                handlers == MatchingHandlers("InternalServerError", unit[u].blueprint)
                                \cup MatchingHandlers("InternalServerError", None)
                returned == unit[u].pc \in ExitPcs /\ unit[u].outcome = "response"
            IN  /\ i < Len(Trace(u))
                /\ Trace(u)[i + 1] = Ev("signal", "got_request_exception", e)
                /\ i + 1 < Len(Trace(u)) =>
                       /\ Trace(u)[i + 2] = Ev("log_exception", "", e)
                       /\ i + 2 < Len(Trace(u))
                       /\ IF handlers # {}
                          THEN /\ Trace(u)[i + 3].ev = "exception_handler"
                               /\ Trace(u)[i + 3].name \in handlers
                               /\ Trace(u)[i + 3].arg = e
                               /\ returned =>
                                      unit[u].response = <<Trace(u)[i + 3].name>>
                          ELSE IF unit[u].debug /\ ~unit[u].testing
                          THEN /\ Trace(u)[i + 3].ev = "traceback_response"
                               /\ returned =>
                                      unit[u].response = <<"traceback_response">>
                          ELSE /\ Trace(u)[i + 3].ev \in {"teardown_request", "signal"}
                               /\ returned
                               /\ unit[u].response =
                                      <<"InternalServerError.get_response">>

\* Debug and testing are both on, no handler matches an InternalServerError,
\* and the response of InternalServerError was returned.
C17_Witness ==
    \E u \in Units :
        /\ unit[u].kind = "request"
        /\ Has(u, "handle_exception", "")
        /\ unit[u].debug /\ unit[u].testing
        /\ unit[u].pc \in ExitPcs /\ unit[u].outcome = "response"
        /\ unit[u].response = <<"InternalServerError.get_response">>

\* The lookup f went to the blueprint's handlers first: it returned one of
\* them when one matches, one of the application's when none of the
\* blueprint and one of the application matches, and None otherwise.
ScopeFirst(f) ==
    LET inScope == MatchingHandlers(f.error, f.blueprint)
        inApp == MatchingHandlers(f.error, None)
    IN  IF inScope # {} THEN f.handler \in inScope
        ELSE IF inApp # {} THEN f.handler \in inApp
        ELSE f.handler = None

\* C18: a lookup for an error raised in a request of blueprint S returns a
\* handler registered in S when one registered in S matches the error, a
\* handler registered with the application when none in S matches and one
\* of the application does, and None only when none matches in either.
C18_ScopeFirst == [][found' # found => ScopeFirst(found')]_vars

\* A lookup for a request of the blueprint returned the blueprint's handler
\* while a handler of the application matches the error as well.
C18_Witness ==
    /\ found.error # None /\ found.blueprint = "bp"
    /\ found.handler \in MatchingHandlers(found.error, "bp")
    /\ MatchingHandlers(found.error, None) # {}
    /\ found.handler \notin MatchingHandlers(found.error, None)

\* The after-request functions of unit u in the order stated: the callbacks
\* its frame collected, the application's, the blueprint's.
AfterOrder(u) ==
    [i \in 1 .. unit[u].dynamic |-> "d" \o ToString(i)]
        \o InOrder("a", unit[u].blueprint)

\* C19: the after-request functions called so far are the first of: the
\* callbacks the frame collected, then the application's, then the
\* blueprint's; the first is given the response make_response made, each
\* other one the response the one before it returned; and request_finished
\* is sent after all of them, with the response the last one returned, which
\* is the response handle_request returns.
C19_AfterRequestChain ==
    \A u \in Units :
        LET calls == Events(u, "after_request")
            made == Events(u, "make_response")
            returned(k) == Append(calls[k].arg, calls[k].name)
            final == IF calls = <<>> THEN made[1].arg ELSE returned(Len(calls))
        IN  /\ IsPrefix(Names(calls), AfterOrder(u))
            /\ calls # <<>> => /\ Len(made) = 1
                               /\ calls[1].arg = made[1].arg
            /\ \A k \in 2 .. Len(calls) : calls[k].arg = returned(k - 1)
            /\ Has(u, "signal", "request_finished") =>
                   /\ Names(calls) = AfterOrder(u)
                   /\ Occurs(u, Ev("signal", "request_finished", final))
                   /\ ReturnedFinalized(u) => unit[u].response = final

\* A request of the blueprint whose frame collected a callback: all five
\* functions were called and the response of the last one was returned.
C19_Witness ==
    \E u \in Units :
        /\ unit[u].blueprint = "bp" /\ unit[u].dynamic = 1
        /\ Names(Events(u, "after_request")) = <<"d1", "a1", "a2", "bp_a1", "bp_a2">>
        /\ unit[u].pc \in ExitPcs /\ unit[u].outcome = "response"
        /\ unit[u].response = <<"view", "d1", "a1", "a2", "bp_a1", "bp_a2">>
        /\ ReturnedFinalized(u)

\* The session of unit u was looked at: process_response got past the
\* after-request functions.
SessionRead(u) == unit[u].session # "none"

\* The session is saved after every after-request function, with the
\* response the last of them returned, and before request_finished is sent.
SavedInPlace(u) ==
    \A i \in 1 .. Len(Trace(u)) :
        Trace(u)[i].ev = "save_session" =>
            /\ Names(Events(u, "after_request")) = AfterOrder(u)
            /\ \A j \in 1 .. Len(Trace(u)) :
                   /\ Trace(u)[j].ev = "after_request" => j < i
                   /\ Trace(u)[j].name = "request_finished" => i < j
            /\ Trace(u)[i].name = unit[u].session
            /\ Trace(u)[i].arg =
                   (IF AfterOrder(u) = <<>> THEN Events(u, "make_response")[1].arg
                    ELSE LET last == Events(u, "after_request")[Len(AfterOrder(u))]
                         IN  Append(last.arg, last.name))

\* C20 as stated: save_session is called exactly when the session is
\* neither the null session nor empty.
C20_SavedWhenNonEmpty ==
    \A u \in Units :
        SessionRead(u) =>
            (Events(u, "save_session") # <<>>
                 <=> unit[u].session \notin {"null", "empty"})

\* C20 amended: save_session is called exactly when the session is not the
\* null session, empty or not; it is called once, after all after-request
\* functions, with the response the last of them returned, and before
\* request_finished is sent.
C20_SavedWhenNotNull ==
    \A u \in Units :
        /\ SessionRead(u) =>
               /\ Events(u, "save_session") # <<>> <=> unit[u].session # "null"
               /\ Len(Events(u, "save_session")) <= 1
        /\ ~SessionRead(u) => Events(u, "save_session") = <<>>
        /\ SavedInPlace(u)

\* The empty session of a request was saved with the response of the last
\* after-request function, and request_finished was sent after that.
C20_Witness ==
    \E u \in Units :
        /\ unit[u].session = "empty" /\ unit[u].blueprint = None
        /\ unit[u].dynamic = 0
        /\ Occurs(u, Ev("save_session", "empty", <<"view", "a1", "a2">>))
        /\ Has(u, "signal", "request_finished")

\* C21: in an OPTIONS request for a rule that provides automatic options,
\* the view function is never called; when no before-request function
\* returned a result, make_default_options_response is called after the
\* last before-request function and what it returns is passed to
\* finalize_request; when a before-request function returned a result, that
\* result is passed to finalize_request and make_default_options_response
\* is not called.
C21_AutomaticOptions ==
    \A u \in Units :
        (unit[u].kind = "request" /\ unit[u].route = "options") =>
            LET made == Events(u, "make_response")
                before == Events(u, "before_request")
                short == Events(u, "return")
            IN  /\ Events(u, "view_function") = <<>>
                /\ short # <<>> =>
                       /\ Events(u, "make_default_options_response") = <<>>
                       /\ made = <<Ev("make_response", "", short[1].arg)>>
                /\ \A i \in 1 .. Len(Trace(u)) :
                       Trace(u)[i].ev = "make_default_options_response" =>
                           /\ short = <<>>
                           /\ Names(before) = InOrder("b", unit[u].blueprint)
                           /\ Trace(u)[i - 1] = before[Len(before)]
                           /\ i < Len(Trace(u)) =>
                                  Trace(u)[i + 1] =
                                      Ev("make_response", "", <<"options">>)
                /\ (made # <<>> /\ short = <<>>
                        /\ ~Has(u, "handle_user_exception", "")) =>
                       made = <<Ev("make_response", "", <<"options">>)>>

\* An OPTIONS request of the blueprint was answered by the default options
\* response, which went through the after-request functions.
C21_Witness ==
    \E u \in Units :
        /\ unit[u].route = "options" /\ unit[u].blueprint = "bp"
        /\ Has(u, "make_default_options_response", "")
        /\ Len(Events(u, "before_request")) = 4
        /\ unit[u].pc \in ExitPcs /\ unit[u].outcome = "response"
        /\ unit[u].response[1] = "options"
        /\ ReturnedFinalized(u)

\* The events of the request pipeline that handle_websocket has no part in.
RequestOnlyEvents ==
    {"url_value_preprocessor", "before_request", "return", "after_request",
     "save_session", "handle_user_exception", "error_handler",
     "handle_exception", "exception_handler", "traceback_response",
     "make_response", "make_default_options_response", "teardown_request"}

\* C22: for a websocket no url value preprocessor, before-request function,
\* after-request function, error handler or make_response is called and no
\* response is made; when the routing or the view function raises an
\* exception that is no cancellation, handle_websocket_exception is called
\* with it, got_request_exception is sent with it, it is logged, and
\* handle_websocket raises that same exception.
C22_WebsocketPipeline ==
    \A u \in Units :
        unit[u].kind = "websocket" =>
            /\ unit[u].response = <<>> /\ unit[u].outcome # "response"
            /\ \A i \in 1 .. Len(Trace(u)) :
                   /\ Trace(u)[i].ev \notin RequestOnlyEvents
                   /\ Trace(u)[i].name \notin {"request_started", "request_finished",
                                               "request_tearing_down"}
                   /\ (/\ Trace(u)[i].ev = "raise"
                       /\ Trace(u)[i].name \in {"dispatch_websocket", "websocket_handler"}
                       /\ Trace(u)[i].arg # Exc("CancelledError")) =>
                          LET e == Trace(u)[i].arg
                          IN  /\ i + 2 <= Len(Trace(u))
                              /\ Trace(u)[i + 1] =
                                     Ev("handle_websocket_exception", "", e)
                              /\ Trace(u)[i + 2] =
                                     Ev("signal", "got_request_exception", e)
                              /\ i + 2 < Len(Trace(u)) =>
                                     /\ Trace(u)[i + 3] = Ev("log_exception", "", e)
                                     /\ unit[u].pc \in ExitPcs
                                     /\ unit[u].outcome = "raised"
                                     /\ Exc(unit[u].raised) = e

\* The routing of a websocket raised NotFound, which was logged and raised
\* by handle_websocket.
C22_Witness ==
    \E u \in Units :
        /\ unit[u].kind = "websocket"
        /\ Occurs(u, Ev("raise", "dispatch_websocket", Exc("NotFound")))
        /\ Occurs(u, Ev("log_exception", "", Exc("NotFound")))
        /\ unit[u].pc \in ExitPcs
        /\ unit[u].outcome = "raised" /\ unit[u].raised = "NotFound"

\* C23: a step that untrips the gate is the end of run(): no unit of work
\* is running, and none starts or goes on in that step; no step of a request
\* or websocket untrips the gate.
C23_GateMonotonic ==
    [][(got_first_request /\ ~got_first_request') => RunEnded]_vars

\* The gate is tripped while one unit is in its view function and another,
\* which had waited for the lock, has passed the gate after it.
C23_Witness ==
    \E u, v \in Units :
        /\ u # v
        /\ got_first_request
        /\ unit[u].pc \in {"handler", "websocket_handler"}
        /\ Has(u, "before_first_request", "f2")
        /\ Has(v, "await", "first_request_lock")
        /\ Has(v, "view_function", "view") \/ Has(v, "view_function", "ws_view")

\* C24: no step of serving changes a registry of hooks (the teardown
\* functions included), the error handlers, the view functions or the url
\* map.
C24_RegistriesFrozen ==
    [][UNCHANGED <<hooks, teardowns, view_functions, url_map>>]_vars

\* The i-th element of a tuple result, None when the result is no tuple or
\* has fewer elements.
Element(result, i) ==
    IF result.type = "tuple" /\ i <= Len(result.items) THEN result.items[i]
    ELSE NoneValue
\* The value of a result, and the response it is or is made into.
ValueOf(result) == IF result.type = "tuple" THEN result.items[1] ELSE result
BaseOf(result) ==
    IF ValueOf(result).type = "Response" THEN ValueOf(result)
    ELSE response_class(ValueOf(result))
\* The status and the headers given with a result.
ExplicitHeaders(result) ==
    IF Element(result, 2).type \in {"dict", "list"} THEN Element(result, 2)
    ELSE Element(result, 3)
ExplicitStatus(result) ==
    IF Element(result, 2).type \in {"dict", "list"} THEN NoneValue
    ELSE Element(result, 2)
\* The response has the headers given, and the headers of old not named.
Merged(response, old, headers) ==
    /\ DOMAIN response.headers = DOMAIN old \cup DOMAIN AsMapping(headers)
    /\ \A name \in DOMAIN response.headers :
           response.headers[name] =
               IF name \in DOMAIN AsMapping(headers)
               THEN AsMapping(headers)[name] ELSE old[name]

\* C25: the response make_response returns is the response object given as
\* the value, or a new one made of the value; a status given becomes its
\* status, also when the value is a response object; headers given are set
\* on it and the headers not named stay; with no status and no headers a
\* response object given is returned as it was.
C25_StatusAndHeaders ==
    last_call.op = "make_response" =>
        LET result == last_call.result
            response == last_call.response
            base == BaseOf(result)
        IN  /\ response.id = base.id /\ response.body = base.body
            /\ response.status_code =
                   IF IsNone(ExplicitStatus(result)) THEN base.status_code
                   ELSE ExplicitStatus(result)
            /\ IF IsNone(ExplicitHeaders(result))
               THEN response.headers = base.headers
               ELSE Merged(response, base.headers, ExplicitHeaders(result))
            /\ (/\ IsNone(ExplicitStatus(result))
                /\ IsNone(ExplicitHeaders(result))
                /\ ValueOf(result).type = "Response") =>
                   response = ValueOf(result)

\* A response object with the status 404 and an Allow header was returned
\* with a status 201 and a Content-Type and X-Test header: it is the same
\* object, has the status 201, and has kept its Allow header.
C25_Witness ==
    /\ last_call.op = "make_response"
    /\ last_call.result.type = "tuple"
    /\ ValueOf(last_call.result).type = "Response"
    /\ ValueOf(last_call.result).status_code = Integer("404")
    /\ "Allow" \in DOMAIN ValueOf(last_call.result).headers
    /\ Len(last_call.result.items) = 3
    /\ last_call.result.items[2] = Integer("201")
    /\ last_call.result.items[3].type = "dict"
    /\ "X-Test" \in DOMAIN last_call.result.items[3].items
    /\ last_call.response.id = "given"
    /\ last_call.response.status_code = Integer("201")
    /\ last_call.response.headers =
           ("Allow" :> "HEAD") @@ ("Content-Type" :> "text/plain")
               @@ ("X-Test" :> "1")

\* C26: a tuple of one or two elements is made into the response of the
\* tuple of three that ends with None; a second element that is a dict or a
\* list is set as headers and leaves the status alone; any other second
\* element that is not None becomes the status; and the third element of a
\* tuple whose second is a status or None is set as headers.
C26_TupleResult ==
    (last_call.op = "make_response" /\ last_call.result.type = "tuple") =>
        LET result == last_call.result
            response == last_call.response
            base == BaseOf(result)
            second == Element(result, 2)
            third == Element(result, 3)
        IN  /\ response = make_response(Tuple(<<ValueOf(result), second, third>>))
            /\ Len(result.items) = 1 => response = make_response(ValueOf(result))
            /\ second.type \in {"dict", "list"} =>
                   /\ Merged(response, base.headers, second)
                   /\ response.status_code = base.status_code
            /\ second.type \notin {"dict", "list", "NoneType"} =>
                   /\ response.status_code = second
                   /\ IF IsNone(third) THEN response.headers = base.headers
                      ELSE Merged(response, base.headers, third)
            /\ (IsNone(second) /\ ~IsNone(third)) =>
                   /\ Merged(response, base.headers, third)
                   /\ response.status_code = base.status_code

\* A str was returned with a list of headers as the second of two elements:
\* the response has the status 200 and the header of the list.
C26_Witness ==
    /\ last_call.op = "make_response"
    /\ last_call.result.type = "tuple"
    /\ Len(last_call.result.items) = 2
    /\ last_call.result.items[1] = Str("body")
    /\ last_call.result.items[2].type = "list"
    /\ last_call.response.status_code = Integer("200")
    /\ last_call.response.headers =
           ("Content-Type" :> "text/html") @@ ("X-Test" :> "2")

\* C27: a handler registered for a status code all_http_exceptions has a
\* class for is the handler of that class in the scope it was registered
\* for, no entry is made under the code itself, and the other scope is as it
\* was; registering for a code it has no class for raises and leaves the
\* dict of every scope as it was.
C27_StatusCodeRegistered ==
    [][(last_call' # last_call /\ last_call'.op = "register_error_handler"
            /\ isinstance_int(last_call'.error)) =>
          IF last_call'.error \in StatusCodes
          THEN /\ last_call'.raised = None
               /\ Registration(error_handler_spec'[last_call'.name],
                               all_http_exceptions(last_call'.error))
                      = last_call'.handler
               /\ Registration(error_handler_spec'[last_call'.name],
                               last_call'.error) = None
               /\ \A key \in ScopeKeys \ {last_call'.name} :
                      error_handler_spec'[key] = error_handler_spec[key]
          ELSE /\ last_call'.raised # None
               /\ error_handler_spec' = error_handler_spec]_vars

\* A handler was registered for 404 with the application, and then one for
\* 999 with the blueprint, which raised: the application has the handler
\* under NotFound and the blueprint has nothing.
C27_Witness ==
    /\ last_call.op = "register_error_handler"
    /\ last_call.error = "999"
    /\ last_call.name = "bp"
    /\ last_call.raised = "KeyError"
    /\ error_handler_spec[None] = << <<"NotFound", ensure_coroutine("on_404")>> >>
    /\ error_handler_spec["bp"] = <<>>

\* C29: a unit that is in a url value preprocessor, a before-request
\* function or a view function (of a request or of a websocket) has passed
\* the gate, and the gate is tripped.
C29_GateBeforeHandlers ==
    \A u \in Units :
        unit[u].pc \in {"url_value_preprocessor", "before_request", "handler",
                        "websocket_handler"}
            => got_first_request

\* Two units are in their view functions; one of them ran the first-request
\* functions and the other waited for the lock meanwhile.
C29_Witness ==
    \E u \in Units : \E v \in Units \ {u} :
        /\ unit[u].pc \in {"handler", "websocket_handler"}
        /\ unit[v].pc \in {"handler", "websocket_handler"}
        /\ Has(u, "before_first_request", "f2")
        /\ Has(v, "await", "first_request_lock")
        /\ ~ \E f \in Range(before_first_request_funcs) :
                 Has(v, "before_first_request", f)

\* C30: at most one unit is in a first-request function; it holds the lock,
\* and the gate is not tripped yet.
C30_OneFirstUse ==
    /\ Cardinality({u \in Units : unit[u].pc = "first_request"}) <= 1
    /\ \A u \in Units :
           unit[u].pc = "first_request" =>
               first_request_lock = u /\ ~got_first_request
    /\ first_request_lock # 0 => unit[first_request_lock].pc = "first_request"

\* One unit is in a first-request function while another one, which found
\* the gate untripped too, waits for the lock.
C30_Witness ==
    \E u \in Units : \E v \in Units \ {u} :
        /\ unit[u].pc = "first_request"
        /\ first_request_lock = u
        /\ unit[v].pc = "first_request_lock"

C31_NoUnitWaitsForever ==
    \A u \in Units :
        (unit[u].pc = "first_request_lock")
            ~> (unit[u].pc # "first_request_lock")


\* A unit waited for the lock while the unit that held it ran the
\* first-request functions, one of which raised; it got the lock, found the
\* gate untripped and ran the first-request functions itself.
C31_Witness ==
    \E u \in Units :
        /\ ~first_use_clean
        /\ Has(u, "await", "first_request_lock")
        /\ Has(u, "before_first_request", "f1")
        /\ unit[u].pc # "first_request_lock"

\* C32: when a before-request function returned a result that is not None
\* for a request whose routing gave a routing exception, dispatch_request
\* does not raise it: the result goes to make_response at once, nothing of
\* the fault recovery is called unless a later phase raises, and when none
\* does the response returned starts from the result and was finalized.
C32_AnsweredBeforeRoutingFault ==
    \A u \in Units : \A i \in 1 .. Len(Trace(u)) :
        (/\ unit[u].route = "routing_exception"
         /\ Trace(u)[i].ev = "return" /\ Trace(u)[i].name = "before_request") =>
            /\ ~Has(u, "raise", "dispatch_request")
            /\ i < Len(Trace(u))
            /\ Trace(u)[i + 1] = Ev("make_response", "", Trace(u)[i].arg)
            /\ \A j \in 1 .. Len(UntilNextRaise(u, i)) :
                   UntilNextRaise(u, i)[j].ev \notin
                       {"handle_user_exception", "error_handler",
                        "handle_exception", "exception_handler"}
            /\ (Events(u, "raise") = <<>> /\ unit[u].pc \in ExitPcs) =>
                   /\ unit[u].outcome = "response"
                   /\ IsPrefix(Trace(u)[i].arg, unit[u].response)
                   /\ ReturnedFinalized(u)

\* The blueprint's first before-request function answered a request whose
\* routing gave a routing exception, and its result was returned after the
\* after-request functions.
C32_Witness ==
    \E u \in Units :
        /\ unit[u].route = "routing_exception" /\ unit[u].blueprint = "bp"
        /\ Occurs(u, Ev("return", "before_request", <<"bp_b1">>))
        /\ Events(u, "raise") = <<>>
        /\ unit[u].pc \in ExitPcs /\ unit[u].outcome = "response"
        /\ unit[u].response[1] = "bp_b1"
        /\ Len(Events(u, "after_request")) >= 4
        /\ ReturnedFinalized(u)

\* C33: whatever is registered with add_url_rule, add_websocket and
\* endpoint, an endpoint that has a handler in view_functions keeps that
\* handler.
C33_EndpointKeepsHandler ==
    [][\A e \in Endpoints :
           view_functions[e] # None => view_functions'[e] = view_functions[e]]_vars

\* C34: add_url_rule and add_websocket, when they raise because the
\* endpoint has another handler, leave view_functions and url_map as they
\* were.
C34_RejectedRouteLeavesNothing ==
    [][(last_call'.op \in {"add_url_rule", "add_websocket"}
           /\ last_call'.raised = "AssertionError")
          => UNCHANGED <<view_functions, url_map>>]_vars

\* The list of each phase, under the name of the method that registers for
\* it; the lists of before_first_request, shell_context_processor and
\* teardown_appcontext have no scopes.
RegistryOf ==
    [context_processor |-> template_context_processors,
     shell_context_processor |-> shell_context_processors,
     url_defaults |-> url_default_functions,
     url_value_preprocessor |-> url_value_preprocessors,
     before_request |-> before_request_funcs,
     before_first_request |-> before_first_request_funcs,
     after_request |-> after_request_funcs,
     teardown_request |-> teardown_request_funcs,
     teardown_appcontext |-> teardown_appcontext_funcs]
FlatOps == {"before_first_request", "shell_context_processor",
            "teardown_appcontext"}

\* C35: each method that registers a function for a phase appends it (or
\* its coroutine function) to the list of that phase, under the name given
\* when the phase has scopes, and leaves the lists of the other phases as
\* they were: shell_context_processor changes shell_context_processors
\* only, and before_first_request appends to the one list of first-request
\* functions whatever name it is given.
C35_OwnRegistryOnly ==
    [][last_call'.op \in HookOps =>
          /\ \A op \in HookOps \ {last_call'.op} : RegistryOf'[op] = RegistryOf[op]
          /\ \E callback \in {last_call'.func, ensure_coroutine(last_call'.func)} :
                 RegistryOf'[last_call'.op] =
                     IF last_call'.op \in FlatOps
                     THEN Append(RegistryOf[last_call'.op], callback)
                     ELSE [RegistryOf[last_call'.op] EXCEPT
                              ![last_call'.name] = Append(@, callback)]]_vars

====
